---- MODULE Spec2Model ----
(***************************************************************************)
(* The tool-call protocol layer of the homicide-data assistant:            *)
(*   IntelligentMCPHandler (src/intelligent_mcp.py): parse_tool_call,      *)
(*     execute_tool_call, handle_question_with_tools;                      *)
(*   MCPIntegration (src/mcp_integration.py): call_tool,                   *)
(*     format_tool_result;                                                 *)
(*   HomicideDataMCP and handle_tool_call (src/homicide_mcp.py);           *)
(*   LlamaClient (src/llama_client.py): generate_with_tools, generate.     *)
(*                                                                         *)
(* Text is a sequence of lexemes.  A lexeme is either one of the special   *)
(* characters the extractor looks at (brace, quote, backslash, colon,      *)
(* comma, blank) or a run of characters none of which is special (a word,  *)
(* a number, the sentinel).  Python values are tagged tuples:              *)
(*   <<"null">>  <<"bool", b>>  <<"num", n>>  <<"str", lexemes>>           *)
(*   <<"obj", members>>   members a sequence of <<key, value>> pairs in    *)
(*   insertion order, key a sequence of lexemes.                           *)
(***************************************************************************)
EXTENDS Integers, Sequences, FiniteSets, TLC

\* ------------------------------------------------------------------ lexemes
SENTINEL == "TOOL_CALL:"
LBrace == "{"
RBrace == "}"
Quote == "\""
Backslash == "\\"
Colon == ":"
Comma == ","
Blank == " "

\* Number lexemes and the integers they denote.
NumLexemes == {"1", "2", "3", "2022", "2023"}
NumVal(lex) ==
  CASE lex = "1" -> 1
    [] lex = "2" -> 2
    [] lex = "3" -> 3
    [] lex = "2022" -> 2022
    [] lex = "2023" -> 2023

\* Words of the alphabet whose first letter is a JSON escape letter
\* (b, f, n, r, t): a backslash before them is a valid escape.
EscapeWords == {"name", "true", "false", "null", "top_n", "bogus_tool"}

\* --------------------------------------------------------------- py values
None == <<"null">>
Str(w) == <<"str", <<w>>>>
Num(n) == <<"num", n>>
Bool(b) == <<"bool", b>>
Obj(members) == <<"obj", members>>
\* The empty string.
EmptyStr == <<"str", <<>>>>
EmptyDict == <<"obj", <<>>>>

IsNone(v) == v[1] = "null"
IsStr(v) == v[1] = "str"
IsNum(v) == v[1] = "num"
IsBool(v) == v[1] = "bool"
IsDict(v) == v[1] = "obj"

\* Python truthiness of a value (the `not x` tests of the code).
Truthy(v) ==
  CASE IsNone(v) -> FALSE
    [] IsBool(v) -> v[2]
    [] IsNum(v) -> v[2] # 0
    [] IsStr(v) -> v[2] # <<>>
    [] IsDict(v) -> v[2] # <<>>
    [] OTHER -> v[2] # <<>>

\* `key in d`
HasKey(d, key) == \E i \in 1..Len(d[2]) : d[2][i][1] = <<key>>

\* d.get(key): None when the key is absent.
Get(d, key) ==
  IF HasKey(d, key)
    THEN d[2][CHOOSE i \in 1..Len(d[2]) : d[2][i][1] = <<key>>][2]
    ELSE None

\* d.get(key, default)
GetOr(d, key, default) == IF HasKey(d, key) THEN Get(d, key) ELSE default

\* d[k] = v on a members sequence: replaces in place, or appends.
DictSet(members, k, v) ==
  IF \E i \in 1..Len(members) : members[i][1] = k
    THEN [i \in 1..Len(members) |->
            IF members[i][1] = k THEN <<k, v>> ELSE members[i]]
    ELSE Append(members, <<k, v>>)

\* -------------------------------------------------------------- json.loads
Failed == [ok |-> FALSE, val |-> None, pos |-> 0]
Parsed(v, p) == [ok |-> TRUE, val |-> v, pos |-> p]

RECURSIVE SkipWs(_, _)
SkipWs(t, i) == IF i <= Len(t) /\ t[i] = Blank THEN SkipWs(t, i + 1) ELSE i

\* The body of a string literal from position i (just after the opening
\* quote): the decoded content and the position after the closing quote.
RECURSIVE ScanString(_, _, _)
ScanString(t, i, acc) ==
  IF i > Len(t) THEN Failed
  ELSE IF t[i] = Quote THEN Parsed(acc, i + 1)
  ELSE IF t[i] = Backslash THEN
    IF i + 1 > Len(t) THEN Failed
    ELSE IF t[i + 1] \in {Quote, Backslash}
      THEN ScanString(t, i + 2, Append(acc, t[i + 1]))
    ELSE IF t[i + 1] \in EscapeWords
      THEN ScanString(t, i + 2, acc \o <<Backslash, t[i + 1]>>)
    ELSE Failed
  ELSE ScanString(t, i + 1, Append(acc, t[i]))

RECURSIVE ParseValue(_, _)
RECURSIVE ParseMembers(_, _, _)

\* Members of an object from position i (a key's opening quote expected).
ParseMembers(t, i, acc) ==
  IF i > Len(t) \/ t[i] # Quote THEN Failed
  ELSE LET k == ScanString(t, i + 1, <<>>) IN
    IF ~k.ok THEN Failed
    ELSE LET c == SkipWs(t, k.pos) IN
      IF c > Len(t) \/ t[c] # Colon THEN Failed
      ELSE LET v == ParseValue(t, SkipWs(t, c + 1)) IN
        IF ~v.ok THEN Failed
        ELSE LET e == SkipWs(t, v.pos)
                 acc2 == DictSet(acc, k.val, v.val) IN
          IF e > Len(t) THEN Failed
          ELSE IF t[e] = RBrace THEN Parsed(Obj(acc2), e + 1)
          ELSE IF t[e] = Comma THEN ParseMembers(t, SkipWs(t, e + 1), acc2)
          ELSE Failed

ParseValue(t, i) ==
  IF i > Len(t) THEN Failed
  ELSE IF t[i] = Quote THEN
    LET s == ScanString(t, i + 1, <<>>) IN
      IF s.ok THEN Parsed(<<"str", s.val>>, s.pos) ELSE Failed
  ELSE IF t[i] = LBrace THEN
    LET j == SkipWs(t, i + 1) IN
      IF j <= Len(t) /\ t[j] = RBrace THEN Parsed(EmptyDict, j + 1)
      ELSE ParseMembers(t, j, <<>>)
  ELSE IF t[i] \in NumLexemes THEN Parsed(Num(NumVal(t[i])), i + 1)
  ELSE IF t[i] = "true" THEN Parsed(Bool(TRUE), i + 1)
  ELSE IF t[i] = "false" THEN Parsed(Bool(FALSE), i + 1)
  ELSE IF t[i] = "null" THEN Parsed(None, i + 1)
  ELSE Failed

\* json.loads(t): one value between optional blanks, nothing after it;
\* ok = FALSE stands for json.JSONDecodeError.
JsonLoads(t) ==
  LET v == ParseValue(t, SkipWs(t, 1)) IN
    IF v.ok /\ SkipWs(t, v.pos) = Len(t) + 1 THEN v ELSE Failed

\* The text a model writes for a value: `{"k": v, "k2": v2}`.
RECURSIVE EscapeStr(_)
EscapeStr(s) ==
  IF s = <<>> THEN <<>>
  ELSE IF Head(s) \in {Quote, Backslash}
    THEN <<Backslash, Head(s)>> \o EscapeStr(Tail(s))
    ELSE <<Head(s)>> \o EscapeStr(Tail(s))

NumLex(n) == CHOOSE lex \in NumLexemes : NumVal(lex) = n

RECURSIVE Serialize(_)
RECURSIVE SerializeMembers(_)
SerializeMembers(ms) ==
  IF ms = <<>> THEN <<>>
  ELSE <<Quote>> \o EscapeStr(ms[1][1]) \o <<Quote, Colon, Blank>>
       \o Serialize(ms[1][2])
       \o (IF Len(ms) > 1 THEN <<Comma, Blank>> ELSE <<>>)
       \o SerializeMembers(Tail(ms))
Serialize(v) ==
  CASE IsNone(v) -> <<"null">>
    [] IsBool(v) -> IF v[2] THEN <<"true">> ELSE <<"false">>
    [] IsNum(v) -> <<NumLex(v[2])>>
    [] IsStr(v) -> <<Quote>> \o EscapeStr(v[2]) \o <<Quote>>
    [] IsDict(v) -> <<LBrace>> \o SerializeMembers(v[2]) \o <<RBrace>>

\* ------------------------------------------------- parse_tool_call (extractor)
\* str.find(lex, from): the first position >= from holding lex, 0 if none.
RECURSIVE Find(_, _, _)
Find(t, lex, from) ==
  IF from > Len(t) THEN 0
  ELSE IF t[from] = lex THEN from
  ELSE Find(t, lex, from + 1)

\* `"TOOL_CALL:" in text`
HasSentinel(t) == Find(t, SENTINEL, 1) # 0

\* The brace-matching loop: from position i with the loop's three locals,
\* the value json_end has when the loop ends (json_end keeps its initial
\* value, passed as `dflt`, when no closing brace returns the count to zero).
\* The loop without its quote flag: every brace counts.
RECURSIVE ScanBraces_quotesIgnored(_, _, _, _, _, _)
ScanBraces_quotesIgnored(t, i, brace_count, in_quotes, escape_next, dflt) ==
  IF i > Len(t) THEN dflt
  ELSE IF t[i] = LBrace
    THEN ScanBraces_quotesIgnored(t, i + 1, brace_count + 1, FALSE, FALSE, dflt)
  ELSE IF t[i] = RBrace THEN
    IF brace_count - 1 = 0 THEN i
    ELSE ScanBraces_quotesIgnored(t, i + 1, brace_count - 1, FALSE, FALSE, dflt)
  ELSE ScanBraces_quotesIgnored(t, i + 1, brace_count, FALSE, FALSE, dflt)

\* The loop without its escape flag: a backslash is an ordinary character,
\* so the quote after it toggles the quote flag.
RECURSIVE ScanBraces_escapeIgnored(_, _, _, _, _, _)
ScanBraces_escapeIgnored(t, i, brace_count, in_quotes, escape_next, dflt) ==
  IF i > Len(t) THEN dflt
  ELSE IF t[i] = Quote
    THEN ScanBraces_escapeIgnored(t, i + 1, brace_count, ~in_quotes, FALSE, dflt)
  ELSE IF ~in_quotes /\ t[i] = LBrace
    THEN ScanBraces_escapeIgnored(t, i + 1, brace_count + 1, in_quotes, FALSE, dflt)
  ELSE IF ~in_quotes /\ t[i] = RBrace THEN
    IF brace_count - 1 = 0 THEN i
    ELSE ScanBraces_escapeIgnored(t, i + 1, brace_count - 1, in_quotes, FALSE, dflt)
  ELSE ScanBraces_escapeIgnored(t, i + 1, brace_count, in_quotes, FALSE, dflt)

RECURSIVE ScanBraces(_, _, _, _, _, _)
ScanBraces(t, i, brace_count, in_quotes, escape_next, dflt) ==
  IF i > Len(t) THEN dflt
  ELSE IF escape_next THEN ScanBraces(t, i + 1, brace_count, in_quotes, FALSE, dflt)
  ELSE IF t[i] = Backslash THEN ScanBraces(t, i + 1, brace_count, in_quotes, TRUE, dflt)
  ELSE IF t[i] = Quote THEN ScanBraces(t, i + 1, brace_count, ~in_quotes, FALSE, dflt)
  ELSE IF ~in_quotes /\ t[i] = LBrace
    THEN ScanBraces(t, i + 1, brace_count + 1, in_quotes, FALSE, dflt)
  ELSE IF ~in_quotes /\ t[i] = RBrace THEN
    IF brace_count - 1 = 0 THEN i
    ELSE ScanBraces(t, i + 1, brace_count - 1, in_quotes, FALSE, dflt)
  ELSE ScanBraces(t, i + 1, brace_count, in_quotes, FALSE, dflt)

\* json_end after the loop, as the inclusive position of the span's last
\* lexeme: json_start - 1 (an empty span) when no closer was found.
JsonEnd(t, json_start) == ScanBraces(t, json_start, 0, FALSE, FALSE, json_start - 1)

\* str.strip()
RECURSIVE Strip(_)
Strip(s) ==
  IF s = <<>> THEN s
  ELSE IF Head(s) = Blank THEN Strip(Tail(s))
  ELSE IF s[Len(s)] = Blank THEN Strip(SubSeq(s, 1, Len(s) - 1))
  ELSE s

\* The span handed to json.loads on the primary path: the stripped slice,
\* with one closing brace appended when it does not end with one.
ToolCallJson(t, json_start) ==
  LET span == Strip(SubSeq(t, json_start, JsonEnd(t, json_start))) IN
    IF span # <<>> /\ span[Len(span)] = RBrace THEN span ELSE Append(span, RBrace)

\* tool_call["arguments"] = {} when the key is absent.
EnsureArguments(d) ==
  IF HasKey(d, "arguments") THEN d ELSE Obj(Append(d[2], <<<<"arguments">>, EmptyDict>>))

\* re.search(r'TOOL_CALL:\s*(\{[^}]*\})', text): group 1 of the leftmost
\* match, from sentinel position s on; <<>> when there is no match.
RECURSIVE RegexGroup(_, _)
RegexGroup(t, s) ==
  LET at == Find(t, SENTINEL, s) IN
    IF at = 0 THEN <<>>
    ELSE LET open == SkipWs(t, at + 1)
             close == IF open <= Len(t) /\ t[open] = LBrace
                        THEN Find(t, RBrace, open + 1) ELSE 0 IN
      IF close # 0 THEN SubSeq(t, open, close) ELSE RegexGroup(t, at + 1)

\* The except-branch of parse_tool_call: the regex fallback.
FallbackParse(t) ==
  LET simple_json == RegexGroup(t, 1) IN
    IF simple_json = <<>> THEN None
    ELSE LET r == JsonLoads(simple_json) IN
      IF r.ok THEN EnsureArguments(r.val) ELSE None

\* The try-branch of parse_tool_call once a sentinel and a brace are found.
PrimaryParse(t, json_start) ==
  LET r == JsonLoads(ToolCallJson(t, json_start)) IN
    IF ~r.ok THEN FallbackParse(t)
    ELSE IF ~HasKey(r.val, "name") THEN None
    ELSE EnsureArguments(r.val)

\* Whether parse_tool_call(t) leaves the try-branch by json.JSONDecodeError.
PrimaryFails(t) ==
  /\ HasSentinel(t)
  /\ Find(t, LBrace, Find(t, SENTINEL, 1)) # 0
  /\ ~JsonLoads(ToolCallJson(t, Find(t, LBrace, Find(t, SENTINEL, 1)))).ok

parse_tool_call(response_content) ==
  IF ~HasSentinel(response_content) THEN None
  ELSE LET tool_call_start == Find(response_content, SENTINEL, 1)
           json_start == Find(response_content, LBrace, tool_call_start) IN
    IF json_start = 0 THEN None
    ELSE PrimaryParse(response_content, json_start)

\* ------------------------------------------------------------------ strings
\* A Python string built by an f-string is a sequence of parts: a literal
\* piece of the template, an interpolated value, or a run of text lexemes.
Lit(s) == <<"lit", s>>
Val(v) == <<"val", v>>
FStr(parts) == <<"fstr", parts>>
IsFStr(v) == v[1] = "fstr"
Concat(a, b) == FStr(a[2] \o b[2])
\* The cross mark that opens every error line of the code.
CrossMark == Lit("[x] ")
\* `sub in text` for two f-strings: the parts of sub occur in a row.
Contains(text, sub) ==
  \E i \in 1..(Len(text[2]) - Len(sub[2]) + 1) :
    SubSeq(text[2], i, i + Len(sub[2]) - 1) = sub[2]

\* ------------------------------------------------------------------ dataset
\* The rows a loaded CSV can hold after _prepare_dataframe: Year is a number
\* or NaN (None), Arrest and Domestic are booleans, the other columns are
\* what the file holds (a number, a string, or NaN).
Row(case, year, ward, district, ca, arrest, domestic, loc, block, iucr) ==
  [case_number |-> case, Year |-> year, Ward |-> ward, District |-> district,
   CommunityArea |-> ca, Arrest |-> arrest, Domestic |-> domestic,
   LocationDescription |-> loc, Block |-> block, IUCR |-> iucr,
   PrimaryType |-> Str("HOMICIDE"), Description |-> Str("FIRST DEGREE MURDER")]

MasterRows ==
  << Row("HA1", Num(2022), Num(3), Num(1), Num(1), TRUE, FALSE, Str("STREET"), Str("B1"), Str("0110")),
     Row("HA2", Num(2023), Num(3), Num(2), Num(1), FALSE, TRUE, Str("APARTMENT"), Str("B2"), Str("0110")),
     Row("HA3", Num(2023), Str("x"), None, Num(2), TRUE, FALSE, None, Str("B1"), Str("0142")),
     Row("HA4", None, Num(1), Num(2), None, FALSE, FALSE, Str("STREET"), Str("B3"), Str("0142")),
     Row("HA5", Num(2022), Num(1), Num(1), Num(2), TRUE, TRUE, Str("STREET"), Str("B1"), Str("0110")) >>

\* How many rows of MasterRows the largest dataset holds.
MaxRecords == 3

Datasets == {SubSeq(MasterRows, 1, n) : n \in 1..MaxRecords}

\* ------------------------------------------------ pandas helpers (accessor)
\* The integer a number or a boolean stands for in a comparison.
IntOf(v) == IF IsBool(v) THEN (IF v[2] THEN 1 ELSE 0) ELSE v[2]
IsNumeric(v) == IsNum(v) \/ IsBool(v)

\* Lower-case of the words used as location descriptions and patterns.
Lower(w) ==
  CASE w = "STREET" -> "street"
    [] w = "APARTMENT" -> "apartment"
    [] w = "APART" -> "apart"
    [] w = "WARD" -> "ward"
    [] OTHER -> w
\* p is a substring of d (both lower case).
IsSubstr(p, d) == p = d \/ <<p, d>> \in {<<"apart", "apartment">>}

\* Series.str.contains(pat, case=False, na=False) on one cell. regex is
\* left at its default True, so pat is compiled as a regular expression
\* and searched for: "." matches any character, a word of letters matches
\* as a substring.
RegexSearch(p, d) == IF p = "." THEN d # "" ELSE IsSubstr(p, d)
\* re.compile(pat) raises re.error: an unbalanced parenthesis.
RegexInvalid(pat) == IsStr(pat) /\ pat[2] = <<"(">>

ContainsCI(cell, pat) ==
  /\ IsStr(cell)
  /\ Len(cell[2]) = 1 /\ Len(pat[2]) = 1
  /\ RegexSearch(Lower(pat[2][1]), Lower(cell[2][1]))

\* df.head(n): the first n rows; with n < 0 all but the last -n.
HeadN(seq, n) ==
  IF n >= 0 THEN SubSeq(seq, 1, IF n < Len(seq) THEN n ELSE Len(seq))
  ELSE SubSeq(seq, 1, IF Len(seq) + n > 0 THEN Len(seq) + n ELSE 0)

\* Series.value_counts(): the distinct non-NaN cells with their counts,
\* by descending count.
RECURSIVE DistinctCells(_, _)
DistinctCells(cells, seen) ==
  IF cells = <<>> THEN seen
  ELSE IF IsNone(Head(cells)) \/ (\E i \in 1..Len(seen) : seen[i] = Head(cells))
    THEN DistinctCells(Tail(cells), seen)
    ELSE DistinctCells(Tail(cells), Append(seen, Head(cells)))

CountOf(cells, v) == Cardinality({i \in 1..Len(cells) : cells[i] = v})

\* Stable insertion of a <<key, count>> pair into a list ordered by
\* descending count.
RECURSIVE InsertByCount(_, _)
InsertByCount(sorted, pair) ==
  IF sorted = <<>> THEN <<pair>>
  ELSE IF Head(sorted)[2] >= pair[2]
    THEN <<Head(sorted)>> \o InsertByCount(Tail(sorted), pair)
    ELSE <<pair>> \o sorted

RECURSIVE SortByCount(_, _)
SortByCount(pairs, acc) ==
  IF pairs = <<>> THEN acc
  ELSE SortByCount(Tail(pairs), InsertByCount(acc, Head(pairs)))

Reverse(seq) == [i \in 1..Len(seq) |-> seq[Len(seq) + 1 - i]]

\* value_counts() sorts its counts with sort_values(), whose default kind
\* is numpy's quicksort: the order it leaves equal counts in is not
\* specified. It is fixed for a given build (the sort is deterministic), so
\* it is a variable set at start: first-seen order, or another order (here
\* the reverse of first-seen).
VARIABLE tie_order
TieOrders == {"first_seen", "last_seen"}

ValueCounts(cells) ==
  LET keys == DistinctCells(cells, <<>>)
      pairs == [i \in 1..Len(keys) |-> <<keys[i], CountOf(cells, keys[i])>>]
  IN IF tie_order = "first_seen" THEN SortByCount(pairs, <<>>)
     ELSE SortByCount(Reverse(pairs), <<>>)

Column(rows, field) == [i \in 1..Len(rows) |-> rows[i][field]]

\* The percentage cut after its first decimal instead of rounded to it.
RateTenths_truncated(count, total) ==
  IF total > 0 THEN (count * 1000) \div total ELSE 0
\* f"{count / total * 100:.1f}%", as tenths of a percent (0 when total = 0).
RateTenths(count, total) ==
  IF total > 0 THEN (count * 2000 + total) \div (2 * total) ELSE 0

\* ------------------------------------- HomicideDataMCP (the dataset accessor)
StaticExplanation == FStr(<<Lit("IUCR stands for Illinois Uniform Crime Reporting.")>>)

\* An error mapping that keeps a key of the result under construction.
ErrorResult_withTotals(parts) == [error |-> FStr(parts), total_matches |-> 0]
\* An accessor's `except Exception as e: return {'error': f"...{e}"}`.
ErrorResult(parts) == [error |-> FStr(parts)]

\* The rows self.df holds after a call of an accessor operation: both
\* operations work on df = self.df.copy() or on selections of self.df.
\* The query keeping its filtered frame as the instance's frame.
DfAfterQuery_filteredInPlace(df, matched) == matched
DfAfterQuery(df, matched) == df

\* One filter step of query_homicides_advanced on a row.
YearAtLeast(row, arg) == IsNum(row.Year) /\ row.Year[2] >= IntOf(arg)
YearAtMost(row, arg) == IsNum(row.Year) /\ row.Year[2] <= IntOf(arg)
\* pd.to_numeric(cell, errors='coerce') == arg
NumericEquals(cell, arg) == IsNum(cell) /\ IsNumeric(arg) /\ cell[2] = IntOf(arg)
\* df['Arrest'] == arg on a boolean column
FlagEquals(flag, arg) == IsNumeric(arg) /\ (IF flag THEN 1 ELSE 0) = IntOf(arg)

\* The rows left after all the set filters (lines 309-343).
Matches(row, a) ==
  /\ IsNone(a.start_year) \/ YearAtLeast(row, a.start_year)
  /\ IsNone(a.end_year) \/ YearAtMost(row, a.end_year)
  /\ IsNone(a.ward) \/ NumericEquals(row.Ward, a.ward)
  /\ IsNone(a.district) \/ NumericEquals(row.District, a.district)
  /\ IsNone(a.community_area) \/ NumericEquals(row.CommunityArea, a.community_area)
  /\ IsNone(a.arrest_status) \/ FlagEquals(row.Arrest, a.arrest_status)
  /\ IsNone(a.domestic) \/ FlagEquals(row.Domestic, a.domestic)
  /\ IsNone(a.location_type) \/ ContainsCI(row.LocationDescription, a.location_type)

FilteredRows(df, a) == SelectSeq(df, LAMBDA row : Matches(row, a))

FilterNames ==
  <<"start_year", "end_year", "ward", "district", "community_area",
    "arrest_status", "domestic", "location_type">>

\* filters_applied: one entry per filter that is not None, in code order.
FiltersApplied(a) ==
  LET set == SelectSeq(FilterNames, LAMBDA f : ~IsNone(a[f])) IN
    [i \in 1..Len(set) |-> <<set[i], a[set[i]]>>]

\* head() leaving the frame as it is.
HeadArg_unbounded(seq, arg) == seq
\* df.head(arg) for an argument taken from the call.
HeadArg(seq, arg) == IF IsNone(arg) THEN seq ELSE HeadN(seq, IntOf(arg))

\* The grouping type a group_by string selects ("" when none of the lists).
GroupType(group_by) ==
  LET g == IF Len(group_by[2]) = 1 THEN Lower(group_by[2][1]) ELSE "" IN
    CASE g \in {"ward", "wards"} -> "ward"
      [] g \in {"district", "districts"} -> "district"
      [] g \in {"community_area", "community_areas"} -> "community_area"
      [] g \in {"location", "locations", "block", "blocks"} -> "location"
      [] OTHER -> ""

\* Whether the body of query_homicides_advanced raises (caught at line 431):
\* an ordered comparison of the Year column with a non-number, a pattern
\* that is not a string or not a regular expression, head() of a
\* non-number, lower() of a non-string.
AdvancedQueryRaises(df, a) ==
  LET n == Len(FilteredRows(df, a)) IN
    \/ ~IsNone(a.start_year) /\ ~IsNumeric(a.start_year)
    \/ ~IsNone(a.end_year) /\ ~IsNumeric(a.end_year)
    \/ ~IsNone(a.location_type) /\ ~IsStr(a.location_type)
    \/ RegexInvalid(a.location_type)
    \/ ~IsNone(a.limit) /\ ~IsNumeric(a.limit)
    \/ n > 0 /\ ~IsNone(a.top_n) /\ ~IsNumeric(a.top_n)
    \/ n > 0 /\ Truthy(a.group_by) /\ ~IsStr(a.group_by)

NoBreakdown == [present |-> FALSE, type |-> "", data |-> <<>>]

PrimaryBreakdown(rows, a, ward, district, ca) ==
  IF rows = <<>> \/ ~Truthy(a.group_by) THEN NoBreakdown
  ELSE LET type == GroupType(a.group_by) IN
    CASE type = "ward" -> [present |-> TRUE, type |-> type, data |-> ward]
      [] type = "district" -> [present |-> TRUE, type |-> type, data |-> district]
      [] type = "community_area" -> [present |-> TRUE, type |-> type, data |-> ca]
      [] type = "location" ->
           [present |-> TRUE, type |-> type,
            data |-> HeadArg(ValueCounts(Column(rows, "Block")), a.top_n)]
      [] OTHER -> NoBreakdown

SampleRecord(row) ==
  [case_number |-> row.case_number, year |-> row.Year, block |-> row.Block,
   ward |-> row.Ward, district |-> row.District, arrest |-> row.Arrest,
   domestic |-> row.Domestic]

\* Year breakdown: value_counts().sort_index(), NaN years dropped.
RECURSIVE InsertByKey(_, _)
InsertByKey(sorted, pair) ==
  IF sorted = <<>> THEN <<pair>>
  ELSE IF Head(sorted)[1][2] <= pair[1][2]
    THEN <<Head(sorted)>> \o InsertByKey(Tail(sorted), pair)
    ELSE <<pair>> \o sorted
RECURSIVE SortByKey(_, _)
SortByKey(pairs, acc) ==
  IF pairs = <<>> THEN acc ELSE SortByKey(Tail(pairs), InsertByKey(acc, Head(pairs)))

query_homicides_advanced(df, a) ==
  IF AdvancedQueryRaises(df, a)
    THEN ErrorResult(<<Lit("Error in advanced query: "), Lit("<exception>")>>)
  ELSE
    LET rows == FilteredRows(df, a)
        total_matches == Len(rows)
        arrest_count == Cardinality({i \in 1..Len(rows) : rows[i].Arrest})
        domestic_count == Cardinality({i \in 1..Len(rows) : rows[i].Domestic})
        ward == HeadArg(ValueCounts(Column(rows, "Ward")), a.top_n)
        district == HeadArg(ValueCounts(Column(rows, "District")), a.top_n)
        ca == HeadArg(ValueCounts(Column(rows, "CommunityArea")), a.top_n)
        sample == HeadArg(rows, a.limit)
    IN [total_matches |-> total_matches,
        filters_applied |-> FiltersApplied(a),
        arrest_count |-> arrest_count,
        arrest_rate |-> RateTenths(arrest_count, total_matches),
        domestic_count |-> domestic_count,
        domestic_rate |-> RateTenths(domestic_count, total_matches),
        year_breakdown |-> SortByKey(ValueCounts(Column(rows, "Year")), <<>>),
        ward_breakdown |-> ward,
        district_breakdown |-> district,
        community_area_breakdown |-> ca,
        primary_breakdown |-> PrimaryBreakdown(rows, a, ward, district, ca),
        top_locations |-> HeadN(ValueCounts(Column(rows, "Block")), 5),
        sample_records_count |-> Len(sample),
        sample_records |-> [i \in 1..Len(sample) |-> SampleRecord(sample[i])]]

\* Order of the IUCR codes of the dataset as strings.
IucrRank(code) == IF code = Str("0110") THEN 1 ELSE 2
\* Series.mode().iloc[0]: the smallest of the most frequent values.
ModeOf(counts) ==
  LET top == {i \in 1..Len(counts) : counts[i][2] = counts[1][2]} IN
    counts[CHOOSE i \in top : \A j \in top : IucrRank(counts[i][1]) <= IucrRank(counts[j][1])][1]

\* A lookup that selects every row.
IucrRows_all(df, iucr_code) == df
\* self.df[self.df['IUCR'] == iucr_code]
IucrRows(df, iucr_code) == SelectSeq(df, LAMBDA row : row.IUCR = iucr_code)

\* get_iucr_info(iucr_code)
get_iucr_info(df, iucr_code) ==
  IF Truthy(iucr_code) THEN
    LET iucr_df == IucrRows(df, iucr_code) IN
      IF iucr_df = <<>>
        THEN ErrorResult(<<Lit("IUCR code '"), Val(iucr_code), Lit("' not found")>>)
        ELSE [iucr_code |-> iucr_code,
              primary_type |-> iucr_df[1].PrimaryType,
              description |-> iucr_df[1].Description,
              total_cases |-> Len(iucr_df),
              explanation |-> StaticExplanation]
  ELSE
    LET counts == ValueCounts(Column(df, "IUCR")) IN
      [explanation |-> StaticExplanation,
       most_common_code |-> IF counts = <<>> THEN Str("Unknown") ELSE ModeOf(counts),
       unique_codes_count |-> Len(counts),
       sample_codes |-> [i \in 1..Len(HeadN(counts, 5)) |-> counts[i][1]]]

\* --------------------------------------------- MCPIntegration.call_tool
\* create_homicide_tools(): the names of the integration layer's tools.
AvailableTools == <<"query_homicides_advanced", "get_iucr_info">>

\* An instance that holds no dataset (homicide_data is None).
NoData == [loaded |-> FALSE, df |-> <<>>]
Loaded(df) == [loaded |-> TRUE, df |-> df]

\* arguments.get("top_n", 10) and arguments.get("limit", 100).
DefaultTopN == 10
DefaultLimit == 100

\* The keyword arguments both dispatch layers build for the advanced query.
AdvancedArgs(arguments) ==
  [start_year |-> Get(arguments, "start_year"),
   end_year |-> Get(arguments, "end_year"),
   ward |-> Get(arguments, "ward"),
   district |-> Get(arguments, "district"),
   community_area |-> Get(arguments, "community_area"),
   arrest_status |-> Get(arguments, "arrest_status"),
   domestic |-> Get(arguments, "domestic"),
   location_type |-> Get(arguments, "location_type"),
   group_by |-> Get(arguments, "group_by"),
   top_n |-> GetOr(arguments, "top_n", Num(DefaultTopN)),
   limit |-> GetOr(arguments, "limit", Num(DefaultLimit))]

\* What a dispatch layer hands back to the model of its caller: the result
\* mapping, the accessor operation it invoked ("" for none), and the rows
\* the instance holds afterwards.
Outcome(result, invoked, df) == [result |-> result, invoked |-> invoked, df |-> df]

\* A not-found message that lists no names.
JoinNames_omitted(names) == <<>>

JoinNames(names) ==
  <<Val(Str(names[1]))>> \o
    [i \in 1..(2 * (Len(names) - 1)) |->
       IF i % 2 = 1 THEN Lit(", ") ELSE Val(Str(names[(i \div 2) + 1]))]

\* The accessor call of both dispatch layers for a known tool name.
InvokeAccessor(df, tool_name, arguments) ==
  IF tool_name = Str("query_homicides_advanced") THEN
    LET a == AdvancedArgs(arguments) IN
      Outcome(query_homicides_advanced(df, a), "query_homicides_advanced",
              DfAfterQuery(df, FilteredRows(df, a)))
  ELSE
    LET code == Get(arguments, "iucr_code") IN
      Outcome(get_iucr_info(df, code), "get_iucr_info",
              DfAfterQuery(df, IucrRows(df, code)))

\* A dispatch layer that serves every call as if it held a dataset.
Unavailable_never(instance) == FALSE
\* `if not self.homicide_data` / `if homicide_data is None`.
Unavailable(instance) == ~instance.loaded

call_tool(homicide_data, tool_name, arguments) ==
  IF Unavailable(homicide_data)
    THEN Outcome(ErrorResult(<<Lit("MCP tools not initialized")>>), "", homicide_data.df)
  ELSE IF \A i \in 1..Len(AvailableTools) : tool_name # Str(AvailableTools[i])
    THEN Outcome(ErrorResult(<<Lit("Tool '"), Val(tool_name),
                               Lit("' not found. Available tools: ")>>
                             \o JoinNames(AvailableTools)),
                 "", homicide_data.df)
  ELSE IF ~IsDict(arguments)
    THEN Outcome(ErrorResult(<<Lit("Error calling tool '"), Val(tool_name),
                               Lit("': "), Lit("<exception>")>>),
                 "", homicide_data.df)
  ELSE InvokeAccessor(homicide_data.df, tool_name, arguments)

\* ------------------------------------------- homicide_mcp.handle_tool_call
handle_tool_call(homicide_data, tool_name, arguments) ==
  IF Unavailable(homicide_data)
    THEN Outcome(ErrorResult(<<Lit("Homicide data not loaded")>>), "", homicide_data.df)
  ELSE IF tool_name \in {Str("query_homicides_advanced"), Str("get_iucr_info")} THEN
    IF ~IsDict(arguments)
      THEN Outcome(ErrorResult(<<Lit("Error executing "), Val(tool_name),
                                 Lit(": "), Lit("<exception>")>>),
                   "", homicide_data.df)
      ELSE InvokeAccessor(homicide_data.df, tool_name, arguments)
  ELSE Outcome(ErrorResult(<<Lit("Unknown tool: "), Val(tool_name)>>), "", homicide_data.df)

\* ------------------------------------- MCPIntegration.format_tool_result
Item(kind, key, count) == <<"item", kind, key, count>>
Rate(tenths) == <<"rate", tenths>>
\* A sample block that says Yes for every record.
Sample_alwaysYes(i, r) ==
  <<"sample", i, r.case_number, r.year, r.ward, r.district, r.block, "Yes">>
Sample(i, r) == <<"sample", i, r.case_number, r.year, r.ward, r.district, r.block,
                  IF r.arrest THEN "Yes" ELSE "No">>

ItemLines(kind, pairs) == [i \in 1..Len(pairs) |-> Item(kind, pairs[i][1], pairs[i][2])]

\* The items left in the order the mapping holds them.
SortedByCount_asGiven(pairs) == pairs
\* sorted(d.items(), key=lambda x: x[1], reverse=True)
SortedByCount(pairs) == SortByCount(pairs, <<>>)

FocusedSection(breakdown) ==
  LET sorted_items == SortedByCount(breakdown.data) IN
    <<Lit("Breakdown (Ranked by Count):"), Lit(breakdown.type)>>
    \o ItemLines(breakdown.type, sorted_items)
    \o <<Lit("Answer: "), Item(breakdown.type, sorted_items[1][1], sorted_items[1][2]),
         Lit(" had the most with "), Val(Num(sorted_items[1][2])), Lit(" homicides.")>>

DetailSection(title, kind, pairs) ==
  IF pairs = <<>> THEN <<>> ELSE <<Lit(title)>> \o ItemLines(kind, pairs)

AdvancedReport(result) ==
  LET focused == result.primary_breakdown.present /\ result.primary_breakdown.data # <<>>
      shown == HeadN(result.sample_records, 3)
  IN FStr(
    <<Lit("Advanced Homicide Query Results")>>
    \o (IF result.filters_applied # <<>>
          THEN <<Lit("Filters Applied: ")>>
               \o [i \in 1..Len(result.filters_applied) |->
                     <<"filter", result.filters_applied[i][1], result.filters_applied[i][2]>>]
          ELSE <<>>)
    \o <<Lit("Total matches: "), Val(Num(result.total_matches)),
         Lit("Arrests made: "), Val(Num(result.arrest_count)), Rate(result.arrest_rate),
         Lit("Domestic cases: "), Val(Num(result.domestic_count)), Rate(result.domestic_rate)>>
    \o (IF focused THEN FocusedSection(result.primary_breakdown)
        ELSE DetailSection("Year Breakdown:", "year", SortByKey(result.year_breakdown, <<>>))
             \o DetailSection("Ward Breakdown", "ward", SortedByCount(result.ward_breakdown))
             \o DetailSection("District Breakdown", "district",
                              SortedByCount(result.district_breakdown))
             \o DetailSection("Community Area Breakdown", "community_area",
                              SortedByCount(result.community_area_breakdown)))
    \o DetailSection("Top Locations:", "location", HeadN(result.top_locations, 3))
    \o (IF result.sample_records # <<>>
          THEN <<Lit("Sample Records"), Val(Num(Len(result.sample_records)))>>
               \o [i \in 1..Len(shown) |-> Sample(i, shown[i])]
          ELSE <<>>))

\* The key tests of format_tool_result, in the order the code makes them.
\* An error test that fires only when `error` is the single key.
IsErrorShape_alone(keys) == keys = {"error"}
IsErrorShape(keys) == "error" \in keys
IsAdvancedShape(keys) == "total_matches" \in keys /\ "filters_applied" \in keys
IsYearShape(keys) == "year" \in keys /\ "records" \in keys
IsStatisticsShape(keys) == "total_homicides" \in keys
IsLocationShape(keys) == "query" \in keys /\ "records" \in keys
\* A code test that never fires.
IsCodeShape_never(keys) == FALSE
IsCodeShape(keys) == "iucr_code" \in keys
IsOverviewShape(keys) == "explanation" \in keys /\ "unique_codes_count" \in keys

\* The keys each report reads by subscript: a missing one raises KeyError
\* inside the try block.
ReadByAdvanced(result) ==
  {"filters_applied", "total_matches", "arrest_count", "arrest_rate", "domestic_count",
   "domestic_rate", "sample_records"}
  \cup (IF "primary_breakdown" \in DOMAIN result /\ result.primary_breakdown.present
           /\ result.primary_breakdown.data # <<>>
          THEN {} ELSE {"year_breakdown"})
ReadByYear == {"year", "total_records", "returned_records", "records"}
ReadByStatistics ==
  {"total_homicides", "year_range", "arrests_made", "arrest_rate", "domestic_cases",
   "domestic_rate"}
ReadByLocation == {"query", "total_matches", "returned_records", "records"}
ReadByCode == {"iucr_code", "primary_type", "description", "total_cases", "explanation"}

\* result.get(key) for the optional sections of the advanced report.
WithOptional(result) ==
  [k \in DOMAIN result \cup {"primary_breakdown", "ward_breakdown", "district_breakdown",
                             "community_area_breakdown", "top_locations", "year_breakdown"} |->
     IF k \in DOMAIN result THEN result[k]
     ELSE IF k = "primary_breakdown" THEN NoBreakdown ELSE <<>>]

\* Lines 294-296 and 298-299.
Dump(result) == FStr(<<Lit("Result:"), <<"dump", result>>>>)
FormatError(result) ==
  FStr(<<Lit("Raw Result:"), <<"dump", result>>, Lit("Format error: "), Lit("<exception>")>>)

\* The legacy reports (lines 229-274), for the empty `records` list.
YearReport(result) ==
  FStr(<<Lit("Homicides in "), Val(result.year), Lit("Total records: "),
         Val(result.total_records), Lit("Showing: "), Val(result.returned_records)>>)
StatisticsReport(result) ==
  FStr(<<Lit("Homicide Statistics"), Lit("Total homicides: "), Val(result.total_homicides),
         Lit("Year range: "), Val(result.year_range),
         Lit("Arrests made: "), Val(result.arrests_made), Val(result.arrest_rate),
         Lit("Domestic cases: "), Val(result.domestic_cases), Val(result.domestic_rate)>>)
LocationReport(result) ==
  FStr(<<Lit("Location Search: "), Val(result.query), Lit("Total matches: "),
         Val(result.total_matches), Lit("Showing: "), Val(result.returned_records)>>)
CodeReport(result) ==
  Concat(FStr(<<Lit("IUCR Code: "), Val(result.iucr_code),
                Lit("Type: "), Val(result.primary_type),
                Lit("Description: "), Val(result.description),
                Lit("Total cases: "), Val(Num(result.total_cases))>>),
         result.explanation)
OverviewReport(result) ==
  Concat(Concat(FStr(<<Lit("IUCR System Overview")>>), result.explanation),
         FStr(<<Lit("Unique codes in dataset: "), Val(Num(result.unique_codes_count))>>
              \o (IF "sample_codes" \in DOMAIN result
                    THEN <<Lit("Most common codes: ")>>
                         \o [i \in 1..Len(result.sample_codes) |-> Val(result.sample_codes[i])]
                    ELSE <<>>)))

\* The characters of the report: what the f-strings write for each piece,
\* as a sequence of lexemes (a field's text is one lexeme).
TextOf(v) ==
  CASE IsNone(v) -> "None"
    [] IsNum(v) -> ToString(v[2])
    [] IsBool(v) -> IF v[2] THEN "True" ELSE "False"
    [] IsStr(v) -> IF Len(v[2]) = 1 THEN v[2][1] ELSE ""
    [] OTHER -> "{}"
\* Lines 221-224: one sample record block.
SampleBlockText(part) ==
  <<ToString(part[2]), ". **Case ", part[3], "** (", TextOf(part[4]), ")", "\n",
    "   Ward: ", TextOf(part[5]), ", District: ", TextOf(part[6]), "\n",
    "   Location: ", TextOf(part[7]), "\n",
    "   Arrest: ", part[8], "\n", "\n">>
PieceText(part) ==
  CASE part[1] = "lit" -> <<part[2], "\n">>
    [] part[1] = "val" -> <<TextOf(part[2]), "\n">>
    [] part[1] = "rate" -> <<"(", ToString(part[2] \div 10), ".", ToString(part[2] % 10), "%)", "\n">>
    [] part[1] = "filter" -> <<part[2], ", ">>
    [] part[1] = "item" ->
         <<"  ", part[2], " ", TextOf(part[3]), ": ", ToString(part[4]), " homicides", "\n">>
    [] part[1] = "sample" -> SampleBlockText(part)
    [] OTHER -> <<"{}">>
RECURSIVE ReportText(_)
ReportText(parts) ==
  IF parts = <<>> THEN <<>> ELSE PieceText(Head(parts)) \o ReportText(Tail(parts))

format_tool_result(result) ==
  LET keys == DOMAIN result IN
    IF IsErrorShape(keys) THEN Concat(FStr(<<CrossMark, Lit("Error: ")>>), result.error)
    ELSE IF IsAdvancedShape(keys) THEN
      IF ReadByAdvanced(result) \subseteq keys THEN AdvancedReport(WithOptional(result))
      ELSE FormatError(result)
    ELSE IF IsYearShape(keys) THEN
      IF ReadByYear \subseteq keys THEN YearReport(result) ELSE FormatError(result)
    ELSE IF IsStatisticsShape(keys) THEN
      IF ReadByStatistics \subseteq keys THEN StatisticsReport(result) ELSE FormatError(result)
    ELSE IF IsLocationShape(keys) THEN
      IF ReadByLocation \subseteq keys THEN LocationReport(result) ELSE FormatError(result)
    ELSE IF IsCodeShape(keys) THEN
      IF ReadByCode \subseteq keys THEN CodeReport(result) ELSE FormatError(result)
    ELSE IF IsOverviewShape(keys) THEN OverviewReport(result)
    ELSE Dump(result)

\* ------------------------------- IntelligentMCPHandler.execute_tool_call
\* self.tools: the names of the dispatcher's catalog.
ToolNames == <<"query_homicides_advanced", "get_iucr_info">>

\* The tool names the system prompt of generate_with_tools shows the model:
\* one line per tool of the handler's list, and the names written in the
\* three worked examples.
PromptToolList == {ToolNames[i] : i \in 1..Len(ToolNames)}
PromptExamples == {"get_homicides_by_year", "get_homicide_statistics"}

InCatalog(tool_name) == \E i \in 1..Len(ToolNames) : tool_name = Str(ToolNames[i])

\* A name test that rejects only a missing or empty name.
RejectsName_emptyOnly(tool_name) == ~Truthy(tool_name)

\* The name test of line 147.
RejectsName(tool_name) == ~Truthy(tool_name) \/ ~InCatalog(tool_name)

\* A record whose error field is never filled in.
ExecutionSummary_errorDropped(tool_name, arguments, raw_result, formatted_result, error) ==
  [tool_name |-> tool_name, arguments |-> arguments, raw_result |-> raw_result,
   formatted_result |-> formatted_result, error |-> None]

ExecutionSummary(tool_name, arguments, raw_result, formatted_result, error) ==
  [tool_name |-> tool_name, arguments |-> arguments, raw_result |-> raw_result,
   formatted_result |-> formatted_result, error |-> error]

\* The execution record, the calls made on the way (in order) and the rows
\* the integration instance holds afterwards.
execute_tool_call(homicide_data, tool_call) ==
  LET tool_name == Get(tool_call, "name")
      arguments == GetOr(tool_call, "arguments", EmptyDict)
  IN IF RejectsName(tool_name)
       THEN [summary |-> ExecutionSummary(tool_name, arguments, None,
                           FStr(<<CrossMark, Lit("Unknown tool: "), Val(tool_name)>>),
                           FStr(<<Lit("Unknown tool: "), Val(tool_name)>>)),
             calls |-> <<>>, df |-> homicide_data.df]
     ELSE
       LET out == call_tool(homicide_data, tool_name, arguments)
           calls == <<"call_tool">> \o (IF out.invoked = "" THEN <<>> ELSE <<out.invoked>>)
       IN IF "error" \in DOMAIN out.result
            THEN [summary |-> ExecutionSummary(tool_name, arguments, out.result,
                                Concat(FStr(<<CrossMark>>), out.result.error),
                                out.result.error),
                  calls |-> calls, df |-> out.df]
            ELSE [summary |-> ExecutionSummary(tool_name, arguments, out.result,
                                format_tool_result(out.result), None),
                  calls |-> calls, df |-> out.df]

\* ----------------------------------------------- inputs: model responses
\* A member <<key, value>> of an object, key one word.
M(key, value) == <<<<key>>, value>>
Call(name, arguments) == Obj(<<M("name", name), M("arguments", arguments)>>)
QHA == Str("query_homicides_advanced")
IUCR == Str("get_iucr_info")

\* The JSON objects a model response may carry after the sentinel.
CallObjects ==
  { Call(QHA, EmptyDict),
    Call(QHA, Obj(<<M("start_year", Num(2023)), M("end_year", Num(2023))>>)),
    Call(QHA, Obj(<<M("ward", Num(3)), M("group_by", Str("ward"))>>)),
    Call(QHA, Obj(<<M("arrest_status", Bool(FALSE)), M("limit", Num(1))>>)),
    Call(QHA, Obj(<<M("location_type", Str("street"))>>)),
    Call(QHA, Obj(<<M("location_type", <<"str", <<"a", LBrace, Quote, "b">>>>)>>)),
    Call(QHA, Obj(<<M("start_year", Str("x"))>>)),
    Call(QHA, Num(1)),
    Call(IUCR, Obj(<<M("iucr_code", Str("0110"))>>)),
    Call(IUCR, Obj(<<M("iucr_code", Str("9999"))>>)),
    Obj(<<M("name", IUCR)>>),
    Obj(<<M("name", <<"str", <<"a", Backslash, RBrace>>>>)>>),
    Call(Str("bogus_tool"), EmptyDict),
    Call(Str("get_homicide_statistics"), EmptyDict),
    Obj(<<M("name", None)>>),
    Obj(<<M("name", Num(1)), M("arguments", EmptyDict)>>),
    Obj(<<M("arguments", EmptyDict)>>),
    Obj(<<M("tool", QHA)>>),
    EmptyDict }

\* How many trailing lexemes a response may be cut short by.
MaxCut == 2

\* What may stand before the object: nothing, the sentinel, the sentinel
\* after other text, or an earlier sentinel followed by stray text.
Prefixes ==
  { <<>>,
    <<SENTINEL>>,
    <<"Sure", Blank, SENTINEL, Blank>>,
    <<SENTINEL, Blank, "x", LBrace, Blank, SENTINEL, Blank>>,
    <<SENTINEL, Blank, "x", Blank, SENTINEL>> }

\* What may follow it.
Suffixes == { <<>>, <<Blank, "thanks", RBrace>> }

ResponseTexts ==
  { pre \o SubSeq(Serialize(o), 1, Len(Serialize(o)) - cut) \o post :
      pre \in Prefixes, o \in CallObjects, cut \in 0..MaxCut, post \in Suffixes }
  \cup { <<"It", Blank, "depends">>, <<SENTINEL, Blank, "none">> }

Questions == {Str("how many in 2023"), Str("what is IUCR")}
\* Texts of the second model call.
Answers == {Str("There were two."), Str("Unsure.")}
\* What LlamaClient returns when the backend raises.
BackendError == FStr(<<CrossMark, Lit("Error generating response: "), Lit("<exception>")>>)

\* ------------------------------------------------- chicago_data_fetcher
\* The ChicagoHomicideDataFetcher object, its cache files and the frame of
\* the running fetch_all_data call.
VARIABLE fetcher

\* self.batch_size, scaled down from 10000 rows.
BatchSize == 2
\* The safety bound of line 144, scaled down from 100 batches.
BatchLimit == 2
\* self.cache_expiry_hours.
CacheExpiryHours == 6
\* The clock advances by this many hours at a time, up to MaxClock.
TickHours == 3
MaxClock == 9

\* No cache files on disk.
NoCache == [exists |-> FALSE, rows |-> <<>>, fetched_at |-> 0]

\* Lines 36-52: both files exist and the stored time is under six hours old.
is_cache_valid(cache, now) ==
  cache.exists /\ now < cache.fetched_at + CacheExpiryHours

\* What the API may answer to fetch_batch(offset, batch_size): up to
\* batch_size rows from the offset on, or from one row earlier when the
\* remote table lost a row between two requests.  Rows are numbered.
BatchesAt(offset) ==
  { [i \in 1..k |-> offset - back + i] :
      k \in 0..BatchSize, back \in {b \in {0, 1} : b <= offset} }

\* pd.concat(all_dataframes, ignore_index=True)
RECURSIVE ConcatFrames(_)
ConcatFrames(frames) ==
  IF frames = <<>> THEN <<>> ELSE Head(frames) \o ConcatFrames(Tail(frames))

\* DataFrame.drop_duplicates(): the first occurrence of each row is kept.
DropDuplicates(rows) ==
  LET kept == SelectSeq([i \in 1..Len(rows) |-> <<i, rows[i]>>],
                        LAMBDA e : \A j \in 1..(e[1] - 1) : rows[j] # e[2])
  IN [i \in 1..Len(kept) |-> kept[i][2]]

\* A loop whose batch counter never stops it.
BatchLimitReached_never(batch_count) == FALSE
\* Line 144: `if batch_count > 100`.
BatchLimitReached(batch_count) == batch_count > BatchLimit

\* Lines 178-196: save_to_cache writes the rows and the current time.
SavedCache(df, cache, now) == [exists |-> TRUE, rows |-> df, fetched_at |-> now]

\* The fetcher between two calls of fetch_all_data.
IdleFetcher(cache, now) ==
  [pc |-> "Idle", all_dataframes |-> <<>>, offset |-> 0, batch_count |-> 0,
   stop |-> "", returned |-> <<>>, cache |-> cache, now |-> now]

\* ------------------------------------------------------------------- state
VARIABLES
  pc,               \* the turn's position (the states of section 4.7)
  homicide_data,    \* mcp_integration.homicide_data: [loaded, df]
  global_data,      \* homicide_mcp.homicide_data (module global)
  loaded_df,        \* the rows as they were loaded (never assigned again)
  question,         \* the turn's question
  response,         \* generate_with_tools' result: [content, needs_tool_call]
  tool_call,        \* parse_tool_call's result
  tool_execution,   \* execute_tool_call's record
  follow_up_prompt, \* the prompt of the second model call
  generated,        \* what llama_client.generate returned (second call)
  final_answer,     \* what the turn returns
  events,           \* the calls made in this turn, in order
  direct            \* result of a manual command or of handle_tool_call

vars == <<pc, homicide_data, global_data, loaded_df, question, response, tool_call,
          tool_execution, follow_up_prompt, generated, final_answer, events, direct,
          tie_order, fetcher>>

\* A failure answered as if the text asked for a tool.
FailureResponse_signalling(error) == [content |-> error, needs_tool_call |-> TRUE]
\* generate_with_tools' except arm: the error text, and no tool call.
FailureResponse(error) == [content |-> error, needs_tool_call |-> FALSE]
NoResponse == [content |-> None, needs_tool_call |-> FALSE]
NoDirect == [entry |-> "", tool_name |-> None, typed |-> "", result |-> None,
             formatted |-> None, invoked |-> ""]

TurnReset ==
  /\ question = None /\ response = NoResponse /\ tool_call = None
  /\ tool_execution = None /\ follow_up_prompt = None /\ generated = None
  /\ final_answer = None /\ events = <<>> /\ direct = NoDirect

\* After construction: each module-level instance either loaded the CSV or
\* found none; both read the same file.
Init ==
  /\ pc = "AwaitingModelDecision"
  /\ loaded_df \in Datasets
  /\ tie_order \in TieOrders
  /\ fetcher = IdleFetcher(NoCache, 0)
  /\ homicide_data \in {NoData, Loaded(loaded_df)}
  /\ global_data \in {NoData, Loaded(loaded_df)}
  /\ TurnReset

\* ---------------------------------------------- handle_question_with_tools
\* llama_client.py line 88: the tool-call signal of the first response.
NeedsToolCall(text) == HasSentinel(text)
\* Line 203: `if not tool_call`.
ExtractionGaveNothing(call) == ~Truthy(call)
\* A test that never sees a dispatch error.
DispatchFailed_never(summary) == FALSE
\* Line 219: `if tool_execution.get("error")`.
DispatchFailed(summary) == Truthy(summary.error)

\* Lines 181-198: the first model call and the direct answer.
AskModel ==
  /\ pc = "AwaitingModelDecision" /\ question = None
  /\ \E q \in Questions :
       \E r \in {[content |-> <<"str", t>>, needs_tool_call |-> NeedsToolCall(t)] :
                   t \in ResponseTexts}
              \cup {FailureResponse(BackendError)} :
         /\ question' = q
         /\ response' = r
         /\ events' = <<"generate_with_tools">>
         /\ IF ~r.needs_tool_call
              THEN final_answer' = r.content /\ pc' = "Direct"
              ELSE final_answer' = None /\ pc' = "ExtractingCall"
  /\ UNCHANGED <<fetcher, homicide_data, global_data, loaded_df, tie_order, tool_call, tool_execution,
                 follow_up_prompt, generated, direct>>

\* Lines 200-210: extraction; line 209 reads tool_call['name'].
ExtractCall ==
  /\ pc = "ExtractingCall"
  /\ LET call == parse_tool_call(response.content[2]) IN
       /\ tool_call' = call
       /\ events' = Append(events, "parse_tool_call")
       /\ IF ExtractionGaveNothing(call)
            THEN /\ final_answer' = FStr(<<CrossMark,
                                          Lit("Could not parse tool call from response: "),
                                          Val(response.content)>>)
                 /\ pc' = "ExtractionFailed"
          ELSE IF ~HasKey(call, "name")
            THEN final_answer' = None /\ pc' = "Raised"
          ELSE final_answer' = None /\ pc' = "ExecutingTool"
  /\ UNCHANGED <<fetcher, homicide_data, global_data, loaded_df, tie_order, question, response,
                 tool_execution, follow_up_prompt, generated, direct>>

\* Lines 212-221: dispatch.
ExecuteTool ==
  /\ pc = "ExecutingTool"
  /\ LET ex == execute_tool_call(homicide_data, tool_call) IN
       /\ tool_execution' = ex.summary
       /\ events' = events \o <<"execute_tool_call">> \o ex.calls
       /\ homicide_data' = [homicide_data EXCEPT !.df = ex.df]
       /\ IF DispatchFailed(ex.summary)
            THEN final_answer' = ex.summary.formatted_result /\ pc' = "ToolError"
            ELSE final_answer' = None /\ pc' = "Summarizing"
  /\ UNCHANGED <<fetcher, global_data, loaded_df, tie_order, question, response, tool_call,
                 follow_up_prompt, generated, direct>>

\* A follow-up prompt that leaves the question out.
FollowUpPrompt_withoutQuestion(formatted_result, q) ==
  Concat(FStr(<<Lit("Based on this data about homicides:")>>), formatted_result)

\* The f-string of lines 224-230.
FollowUpPrompt(formatted_result, q) ==
  Concat(Concat(FStr(<<Lit("Based on this data about homicides:")>>), formatted_result),
         FStr(<<Lit("Please answer the original question: "), Val(q),
                Lit("Provide a clear, informative answer based on the data.")>>))

\* Lines 223-236: the second model call.
Summarize ==
  /\ pc = "Summarizing"
  /\ \E final_response \in Answers \cup {BackendError} :
       /\ follow_up_prompt' = FollowUpPrompt(tool_execution.formatted_result, question)
       /\ events' = Append(events, "generate")
       /\ generated' = final_response
       /\ final_answer' = final_response
       /\ pc' = "Done"
  /\ UNCHANGED <<fetcher, homicide_data, global_data, loaded_df, tie_order, question, response, tool_call,
                 tool_execution, direct>>

\* ------------------------------------------------- the interaction trace
\* interaction_trace["tool_call"]: None from line 188 until line 210 sets it.
TraceToolCall ==
  IF pc \in {"ExecutingTool", "Summarizing", "ToolError", "Done"} THEN tool_call ELSE None
\* interaction_trace["tool_execution"] is set (line 216).
TraceHasExecution == pc \in {"Summarizing", "ToolError", "Done"}
\* interaction_trace["final_answer"] (lines 197, 205, 220, 235).
TraceFinalAnswer == final_answer
\* What the handler returns without a trace: the second operand of the
\* return statements of lines 198, 206, 221 and 236.
ReturnedText ==
  CASE pc = "Direct" -> response.content
    [] pc = "ExtractionFailed" ->
         FStr(<<CrossMark, Lit("Could not parse tool call from response: "),
                Val(response.content)>>)
    [] pc = "ToolError" -> tool_execution.formatted_result
    [] pc = "Done" -> generated
    [] OTHER -> None

\* ------------------------------------------------- the other entry points
\* Tool names typed after /mcp or passed to handle_tool_call.
CommandNames ==
  {QHA, IUCR, Str("get_homicide_statistics"), Str("get_homicides_by_year")}

\* main.py 98-123: `/mcp <tool> [args]`, a bare number or a bare string.
\* What may be typed after the tool name: nothing, digits, other text.
CommandTexts == {"", "2023", "street"}
\* str.isdigit() and int() on the typed text.
IsDigit(text) == text = "2023"
IntValue(text) == IF text = "2023" THEN 2023 ELSE 0
\* Lines 105-116: the arguments built from the typed text.
ManualArguments(args_str) ==
  IF args_str = "" THEN EmptyDict
  ELSE IF IsDigit(args_str) THEN Obj(<<M("year", Num(IntValue(args_str)))>>)
  ELSE Obj(<<M("location_query", Str(args_str))>>)
CommandArgs == {ManualArguments(args_str) : args_str \in CommandTexts}

McpCommand ==
  /\ pc = "AwaitingModelDecision" /\ question = None
  /\ \E tool_name \in CommandNames, args_str \in CommandTexts :
       LET out == call_tool(homicide_data, tool_name, ManualArguments(args_str)) IN
         /\ direct' = [entry |-> "call_tool", tool_name |-> tool_name, typed |-> args_str,
                       result |-> out.result,
                       formatted |-> format_tool_result(out.result),
                       invoked |-> out.invoked]
         /\ homicide_data' = [homicide_data EXCEPT !.df = out.df]
  /\ pc' = "CommandDone"
  /\ UNCHANGED <<fetcher, global_data, loaded_df, tie_order, question, response, tool_call, tool_execution,
                 follow_up_prompt, generated, final_answer, events>>

\* The arguments homicide_mcp.main passes in test mode (lines 538-554), and
\* those of a caller that uses the declared schema.
HandlerArgs ==
  { EmptyDict,
    Obj(<<M("year", Num(2023)), M("limit", Num(3))>>),
    Obj(<<M("iucr_code", Str("0142"))>>),
    Obj(<<M("start_year", Num(2022))>>) }

HandleToolCall ==
  /\ pc = "AwaitingModelDecision" /\ question = None
  /\ \E tool_name \in CommandNames \cup {Str("search_by_location")}, args \in HandlerArgs :
       LET out == handle_tool_call(global_data, tool_name, args) IN
         /\ direct' = [entry |-> "handle_tool_call", tool_name |-> tool_name, typed |-> "",
                       result |-> out.result,
                       formatted |-> None,
                       invoked |-> out.invoked]
         /\ global_data' = [global_data EXCEPT !.df = out.df]
  /\ pc' = "CommandDone"
  /\ UNCHANGED <<fetcher, homicide_data, loaded_df, tie_order, question, response, tool_call, tool_execution,
                 follow_up_prompt, generated, final_answer, events>>

TurnOver == pc \in {"Direct", "ExtractionFailed", "Raised", "ToolError", "Done", "CommandDone"}

\* The caller's loop (main.py 50-161) takes the next input.
NextInput ==
  /\ TurnOver
  /\ pc' = "AwaitingModelDecision"
  /\ question' = None /\ response' = NoResponse /\ tool_call' = None
  /\ tool_execution' = None /\ follow_up_prompt' = None /\ generated' = None
  /\ final_answer' = None /\ events' = <<>> /\ direct' = NoDirect
  /\ UNCHANGED <<fetcher, homicide_data, global_data, loaded_df, tie_order>>

Next ==
  \/ AskModel \/ ExtractCall \/ ExecuteTool \/ Summarize
  \/ McpCommand \/ HandleToolCall \/ NextInput

Spec == Init /\ [][Next]_vars

\* ------------------------------------------- the extractor on its own
\* parse_tool_call applied to any text, with or without a sentinel.
InitExtractor ==
  /\ pc = "ParseInput"
  /\ loaded_df = SubSeq(MasterRows, 1, 1)
  /\ tie_order = "first_seen"
  /\ fetcher = IdleFetcher(NoCache, 0)
  /\ homicide_data = NoData /\ global_data = NoData
  /\ question = None /\ tool_call = None
  /\ tool_execution = None /\ follow_up_prompt = None /\ generated = None
  /\ final_answer = None /\ events = <<>> /\ direct = NoDirect
  /\ \E t \in ResponseTexts :
       response = [content |-> <<"str", t>>, needs_tool_call |-> NeedsToolCall(t)]

ParseResponse ==
  /\ pc = "ParseInput"
  /\ tool_call' = parse_tool_call(response.content[2])
  /\ events' = <<"parse_tool_call">>
  /\ pc' = "Parsed"
  /\ UNCHANGED <<fetcher, homicide_data, global_data, loaded_df, tie_order, question, response,
                 tool_execution, follow_up_prompt, generated, final_answer, direct>>

SpecExtractor == InitExtractor /\ [][ParseResponse]_vars

\* ------------------------------------------ the dispatcher on its own
\* execute_tool_call applied to any mapping, against any instance state.
InitDispatcher ==
  /\ pc = "ExecutingTool"
  /\ loaded_df \in Datasets
  /\ tie_order \in TieOrders
  /\ fetcher = IdleFetcher(NoCache, 0)
  /\ homicide_data \in {NoData, Loaded(loaded_df)}
  /\ global_data = NoData
  /\ question = None /\ response = NoResponse
  /\ tool_call \in CallObjects
  /\ tool_execution = None /\ follow_up_prompt = None /\ generated = None
  /\ final_answer = None /\ events = <<>> /\ direct = NoDirect

SpecDispatcher == InitDispatcher /\ [][ExecuteTool]_vars

\* ------------------------------------- dispatched queries on their own
\* A dataset with one row more than the default sample limit and one ward
\* more than the default top_n.
LargeDataset ==
  [i \in 1..(DefaultLimit + 1) |->
     Row("HB" \o ToString(i), Num(2022 + (i % 2)), Num(((i - 1) % (DefaultTopN + 1)) + 1),
         Num((i % 3) + 1), IF i % 7 = 0 THEN None ELSE Num((i % 2) + 1),
         i % 3 = 0, i % 5 = 0, Str("STREET"),
         Str(IF i % 4 = 0 THEN "B1" ELSE "B2"), Str("0110"))]

\* Argument members a caller may combine in one advanced query.
FilterChoices ==
  { <<>>,
    <<M("start_year", Num(2023))>>,
    <<M("end_year", Num(2022))>>,
    <<M("start_year", Num(2022)), M("end_year", Num(2023))>>,
    <<M("ward", Num(3))>>,
    <<M("ward", Num(1))>>,
    <<M("ward", None)>>,
    <<M("ward", Str("x"))>>,
    <<M("district", Num(2))>>,
    <<M("community_area", Num(1))>>,
    <<M("arrest_status", Bool(FALSE))>>,
    <<M("arrest_status", Bool(TRUE))>>,
    <<M("domestic", Bool(FALSE))>>,
    <<M("domestic", Bool(TRUE)), M("ward", Num(3))>>,
    <<M("location_type", Str("street"))>>,
    <<M("location_type", Str("APART"))>>,
    <<M("location_type", Str("."))>>,
    <<M("location_type", Str("("))>>,
    <<M("start_year", Num(2023)), M("ward", Num(3)), M("arrest_status", Bool(FALSE))>>,
    <<M("start_year", Str("x"))>> }
GroupChoices ==
  { <<>>, <<M("group_by", Str("ward"))>>, <<M("group_by", Str("district"))>>,
    <<M("group_by", Str("community_area"))>>, <<M("group_by", Str("location"))>>,
    <<M("group_by", Str("WARD"))>>, <<M("group_by", Str("year"))>> }
TopChoices == { <<>>, <<M("top_n", Num(1))>>, <<M("top_n", Num(2))>> }
LimitChoices == { <<>>, <<M("limit", Num(0))>>, <<M("limit", Num(1))>>, <<M("limit", Num(2))>> }

QueryCalls ==
  { Call(QHA, Obj(f \o g \o t \o l)) :
      f \in FilterChoices, g \in GroupChoices, t \in TopChoices, l \in LimitChoices }

\* The queries run against the large dataset.
LargeQueryCalls ==
  { Call(QHA, Obj(f \o g)) :
      f \in {<<>>, <<M("start_year", Num(2023))>>, <<M("arrest_status", Bool(FALSE))>>},
      g \in GroupChoices }

IucrCalls ==
  { Call(IUCR, EmptyDict), Call(IUCR, Obj(<<M("iucr_code", None)>>)),
    Call(IUCR, Obj(<<M("iucr_code", EmptyStr)>>)),
    Call(IUCR, Obj(<<M("iucr_code", Str("0110"))>>)),
    Call(IUCR, Obj(<<M("iucr_code", Str("0142"))>>)),
    Call(IUCR, Obj(<<M("iucr_code", Str("9999"))>>)),
    Call(IUCR, Obj(<<M("iucr_code", Num(110))>>)) }

InitQuery ==
  /\ pc = "ExecutingTool"
  /\ tie_order \in TieOrders
  /\ fetcher = IdleFetcher(NoCache, 0)
  /\ \/ loaded_df \in Datasets /\ tool_call \in QueryCalls \cup IucrCalls
     \/ loaded_df = LargeDataset /\ tool_call \in LargeQueryCalls \cup IucrCalls
  /\ homicide_data = Loaded(loaded_df)
  /\ global_data = NoData
  /\ question = None /\ response = NoResponse
  /\ tool_execution = None /\ follow_up_prompt = None /\ generated = None
  /\ final_answer = None /\ events = <<>> /\ direct = NoDirect

SpecQuery == InitQuery /\ [][ExecuteTool]_vars

\* ------------------------------------------ the formatter on its own
\* The key sets of the accessor's result shapes (homicide_mcp.py 414-429,
\* 273-279 and 282-287).
AdvancedKeys ==
  {"total_matches", "filters_applied", "arrest_count", "arrest_rate", "domestic_count",
   "domestic_rate", "year_breakdown", "ward_breakdown", "district_breakdown",
   "community_area_breakdown", "primary_breakdown", "top_locations",
   "sample_records_count", "sample_records"}
IucrCodeKeys == {"iucr_code", "primary_type", "description", "total_cases", "explanation"}
IucrOverviewKeys == {"explanation", "most_common_code", "unique_codes_count", "sample_codes"}

\* A value for every key format_tool_result looks at, and one it does not.
SampleDataset == SubSeq(MasterRows, 1, 2)
AllKeysResult ==
  query_homicides_advanced(SampleDataset, AdvancedArgs(Obj(<<M("ward", Num(3))>>)))
  @@ get_iucr_info(SampleDataset, Str("0110"))
  @@ get_iucr_info(SampleDataset, None)
  @@ [error |-> FStr(<<Lit("boom")>>), year |-> Num(2023), records |-> <<>>,
      total_records |-> Num(0), returned_records |-> Num(0), total_homicides |-> Num(2),
      year_range |-> Str("2022-2023"), arrests_made |-> Num(1), domestic_cases |-> Num(1),
      query |-> Str("street"), note |-> Str("n")]

\* Mappings whose breakdowns are not in count order (a caller may hand the
\* formatter any mapping): matches spread over wards 3, 7 and 12 as 5, 9
\* and 9, five top locations and four sample records; with the focused
\* breakdown, and without it.
ScenarioCounts == <<<<Num(3), 5>>, <<Num(7), 9>>, <<Num(12), 9>>>>
ScenarioRecord(case, arrest) ==
  [case_number |-> case, year |-> Num(2023), block |-> Str("B1"), ward |-> Num(7),
   district |-> Num(1), arrest |-> arrest, domestic |-> FALSE]
DetailScenario(base) ==
  [base EXCEPT
     !.total_matches = 23,
     !.year_breakdown = <<<<Num(2022), 9>>, <<Num(2023), 14>>>>,
     !.ward_breakdown = ScenarioCounts,
     !.district_breakdown = <<<<Num(1), 11>>, <<Num(2), 12>>>>,
     !.community_area_breakdown = <<<<Num(1), 23>>>>,
     !.top_locations = <<<<Str("B1"), 9>>, <<Str("B2"), 5>>, <<Str("B3"), 4>>,
                         <<Str("B4"), 3>>, <<Str("B5"), 2>>>>,
     !.sample_records_count = 4,
     !.sample_records = <<ScenarioRecord("HC1", TRUE), ScenarioRecord("HC2", FALSE),
                          ScenarioRecord("HC3", FALSE), ScenarioRecord("HC4", TRUE)>>]
FocusedScenario(base) ==
  [DetailScenario(base) EXCEPT
     !.primary_breakdown = [present |-> TRUE, type |-> "ward", data |-> ScenarioCounts]]
FormatterResults(base) == {base, DetailScenario(base), FocusedScenario(base)}

\* Groups of keys a mapping handed to the formatter may hold: whole shapes,
\* and the keys alone that a shape is recognised by.
KeyGroups ==
  { {"error"}, AdvancedKeys, {"total_matches", "filters_applied"}, IucrCodeKeys,
    {"iucr_code"}, IucrOverviewKeys, ReadByYear, ReadByStatistics, ReadByLocation,
    {"note"} }

InitFormatter ==
  /\ pc = "FormatInput"
  /\ loaded_df = SampleDataset
  /\ tie_order \in TieOrders
  /\ fetcher = IdleFetcher(NoCache, 0)
  /\ homicide_data = NoData /\ global_data = NoData
  /\ question = None /\ response = NoResponse /\ tool_call = None
  /\ tool_execution = None /\ follow_up_prompt = None /\ generated = None
  /\ final_answer = None /\ events = <<>>
  /\ \E base \in {AllKeysResult} :
     \E all \in FormatterResults(base) :
       \E groups \in SUBSET KeyGroups :
         direct = [NoDirect EXCEPT !.result = [k \in UNION groups |-> all[k]]]

FormatResult ==
  /\ pc = "FormatInput"
  /\ direct' = [direct EXCEPT !.entry = "format_tool_result",
                              !.formatted = format_tool_result(direct.result)]
  /\ pc' = "Formatted"
  /\ UNCHANGED <<fetcher, homicide_data, global_data, loaded_df, tie_order, question, response,
                 tool_call, tool_execution, follow_up_prompt, generated, final_answer,
                 events>>

SpecFormatter == InitFormatter /\ [][FormatResult]_vars

\* ------------------------------------------- the data fetcher on its own
TurnVars == <<pc, homicide_data, global_data, loaded_df, question, response, tool_call,
              tool_execution, follow_up_prompt, generated, final_answer, events, direct,
              tie_order>>

InitFetcher ==
  /\ pc = "Fetching"
  /\ loaded_df = SubSeq(MasterRows, 1, 1)
  /\ tie_order = "first_seen"
  /\ homicide_data = NoData /\ global_data = NoData
  /\ question = None /\ response = NoResponse /\ tool_call = None
  /\ tool_execution = None /\ follow_up_prompt = None /\ generated = None
  /\ final_answer = None /\ events = <<>> /\ direct = NoDirect
  /\ fetcher = IdleFetcher(NoCache, 0)

\* Lines 106-118: a fresh cache is returned as it is; otherwise paging
\* starts at offset 0.
FetchAllData ==
  /\ fetcher.pc = "Idle"
  /\ \E force_refresh \in BOOLEAN :
       IF ~force_refresh /\ is_cache_valid(fetcher.cache, fetcher.now)
         THEN fetcher' = [fetcher EXCEPT !.pc = "Returned", !.stop = "cache",
                                         !.returned = fetcher.cache.rows]
         ELSE fetcher' = [fetcher EXCEPT !.pc = "Paging"]
  /\ UNCHANGED TurnVars

\* Lines 120-154: one pass of the loop, whose fetch_batch raises or
\* returns a frame.
FetchBatch ==
  /\ fetcher.pc = "Paging"
  /\ \/ \* lines 148-154: the fetch raised
        IF fetcher.all_dataframes # <<>>
          THEN fetcher' = [fetcher EXCEPT !.pc = "Combining", !.stop = "error"]
          ELSE fetcher' = [fetcher EXCEPT !.pc = "Raised", !.stop = "error"]
     \/ \E batch_df \in BatchesAt(fetcher.offset) :
          IF batch_df = <<>>
            THEN fetcher' = [fetcher EXCEPT !.pc = "Combining", !.stop = "empty"]
            ELSE LET batch_count == fetcher.batch_count + 1
                     grown == [fetcher EXCEPT
                                 !.all_dataframes = Append(fetcher.all_dataframes, batch_df),
                                 !.batch_count = batch_count,
                                 !.offset = fetcher.offset + Len(batch_df)]
                 IN IF Len(batch_df) < BatchSize
                      THEN fetcher' = [grown EXCEPT !.pc = "Combining", !.stop = "short"]
                    ELSE IF BatchLimitReached(batch_count)
                      THEN fetcher' = [grown EXCEPT !.pc = "Combining", !.stop = "limit"]
                    ELSE fetcher' = grown
  /\ UNCHANGED TurnVars

\* Lines 156-176: no frame raises ValueError; otherwise the frames are
\* combined, cleared of duplicates, cached and returned.
CombineAndCache ==
  /\ fetcher.pc = "Combining"
  /\ IF fetcher.all_dataframes = <<>>
       THEN fetcher' = [fetcher EXCEPT !.pc = "Raised"]
       ELSE LET combined_df == DropDuplicates(ConcatFrames(fetcher.all_dataframes)) IN
              fetcher' = [fetcher EXCEPT
                            !.pc = "Returned", !.returned = combined_df,
                            !.cache = SavedCache(combined_df, fetcher.cache, fetcher.now)]
  /\ UNCHANGED TurnVars

\* Time passes, during a call or between calls.
Tick ==
  /\ fetcher.now + TickHours <= MaxClock
  /\ fetcher' = [fetcher EXCEPT !.now = fetcher.now + TickHours]
  /\ UNCHANGED TurnVars

\* The caller asks for the data again.
NextFetch ==
  /\ fetcher.pc \in {"Returned", "Raised"}
  /\ fetcher' = IdleFetcher(fetcher.cache, fetcher.now)
  /\ UNCHANGED TurnVars

NextFetcher == FetchAllData \/ FetchBatch \/ CombineAndCache \/ Tick \/ NextFetch

\* Every started call is run on: the loop and the steps after it are code
\* of one thread that nothing suspends.
SpecFetcher ==
  /\ InitFetcher /\ [][NextFetcher]_vars
  /\ WF_vars(FetchBatch) /\ WF_vars(CombineAndCache)

\* ======================================================================
\* Properties
\* ======================================================================
Range(seq) == {seq[i] : i \in 1..Len(seq)}
Count(seq, e) == Cardinality({i \in 1..Len(seq) : seq[i] = e})
ResponseText == response.content[2]

\* A ToolCall as the data model has it: a mapping with name and arguments.
ValidToolCall(c) == IsDict(c) /\ HasKey(c, "name") /\ HasKey(c, "arguments")

\* The diagnostic of line 204.
ParseDiagnostic ==
  FStr(<<CrossMark, Lit("Could not parse tool call from response: "), Val(response.content)>>)

\* C1: when the model signals a tool call and no valid ToolCall can be
\* extracted from the text, the turn ends with the diagnostic error as its
\* final answer: it does not raise, the dispatcher is not invoked and no
\* second model call is made.  (Violated: the regex fallback returns a
\* mapping without `name`, and line 209 then raises KeyError.)
C1_ExtractionFailureEndsTurn ==
  (/\ response.needs_tool_call
   /\ "parse_tool_call" \in Range(events)
   /\ ~ValidToolCall(tool_call))
  => /\ pc = "ExtractionFailed"
     /\ final_answer = ParseDiagnostic
     /\ "execute_tool_call" \notin Range(events)
     /\ "generate" \notin Range(events)

\* C2: parse_tool_call returns none or a mapping that has a `name` key and
\* an `arguments` key, whichever path produced it.  (Violated on the regex
\* fallback path, which does not test for `name`.)
C2_ReturnedCallHasNameAndArguments ==
  pc = "Parsed" => (tool_call = None \/ ValidToolCall(tool_call))

\* A value none of whose strings (keys or values) holds a brace.
RECURSIVE BraceFree(_)
BraceFree(v) ==
  CASE IsStr(v) -> LBrace \notin Range(v[2]) /\ RBrace \notin Range(v[2])
    [] IsDict(v) -> \A i \in 1..Len(v[2]) :
                      /\ LBrace \notin Range(v[2][i][1]) /\ RBrace \notin Range(v[2][i][1])
                      /\ BraceFree(v[2][i][2])
    [] OTHER -> TRUE

\* The text of an object with only its final closing brace missing.
Unterminated(o) == SubSeq(Serialize(o), 1, Len(Serialize(o)) - 1)

\* C3: a sentinel followed by an object whose final `}` alone is missing
\* (no braces inside strings) is recovered: the ToolCall returned is that
\* object.  (Violated: json_end stays at json_start when no closer is
\* found, so the span handed to the parser is the lone appended brace.)
C3_UnterminatedObjectRecovered ==
  pc = "Parsed" =>
    \A o \in CallObjects :
      (IsStr(Get(o, "name")) /\ BraceFree(o)
       /\ ResponseText = <<SENTINEL>> \o Unterminated(o))
      => tool_call = EnsureArguments(o)

\* Objects with a name and no nested object: single-level.
FlatNamedObjects ==
  {o \in CallObjects : HasKey(o, "name") /\ \A i \in 1..Len(o[2]) : ~IsDict(o[2][i][2])}

\* t[a..b], empty when the text is too short to hold it.
Slice(t, a, b) == IF a < 1 \/ b > Len(t) THEN <<>> ELSE SubSeq(t, a, b)

\* The text holds a sentinel that the text of o follows (blanks between).
FollowsSentinel(t, o) ==
  \E i \in 1..Len(t) :
    /\ t[i] = SENTINEL
    /\ Slice(t, SkipWs(t, i + 1), SkipWs(t, i + 1) + Len(Serialize(o)) - 1) = Serialize(o)

\* The first brace after the first sentinel opens the text of o.
FirstBraceOpens(t, o) ==
  LET json_start == Find(t, LBrace, Find(t, SENTINEL, 1)) IN
    /\ HasSentinel(t) /\ json_start # 0
    /\ Slice(t, json_start, json_start + Len(Serialize(o)) - 1) = Serialize(o)

\* C4 as stated: no sentinel yields none; a text that contains the sentinel
\* followed by a valid single-level object yields a ToolCall with that
\* object's name.
C4_SentinelThenObjectYieldsItsName ==
  pc = "Parsed" =>
    /\ ~HasSentinel(ResponseText) => tool_call = None
    /\ \A o \in FlatNamedObjects :
         FollowsSentinel(ResponseText, o)
         => (ValidToolCall(tool_call) /\ Get(tool_call, "name") = Get(o, "name"))

\* C4 amended: no sentinel yields none; when the first brace after the
\* first sentinel opens a valid single-level object that has a name, the
\* ToolCall returned has that name.
C4_FirstBraceObjectYieldsItsName ==
  pc = "Parsed" =>
    /\ ~HasSentinel(ResponseText) => tool_call = None
    /\ \A o \in FlatNamedObjects :
         FirstBraceOpens(ResponseText, o)
         => (ValidToolCall(tool_call) /\ Get(tool_call, "name") = Get(o, "name"))

\* C4 witness: a flat object whose name holds a brace inside the string,
\* after a sentinel and other text and before trailing text, was parsed.
C4_Witness ==
  /\ pc = "Parsed"
  /\ \E o \in FlatNamedObjects :
       /\ ~BraceFree(o)
       /\ FirstBraceOpens(ResponseText, o)
       /\ Len(ResponseText) > Len(Serialize(o)) + 4
       /\ ValidToolCall(tool_call)

\* A named object some member of which is itself an object.
NestedNamedObjects ==
  {o \in CallObjects : HasKey(o, "name") /\ \E i \in 1..Len(o[2]) : IsDict(o[2][i][2])}

\* The ToolCall an object denotes: the object, with an empty argument
\* mapping when it carries none.
ToolCallOf(o) ==
  IF HasKey(o, "arguments") THEN o
  ELSE Obj(Append(o[2], M("arguments", Obj(<<>>))))

\* C28: when the first brace after the sentinel opens a well-formed,
\* possibly nested object that has a `name`, whatever text follows it, the
\* ToolCall returned is that object: braces and escaped quotes inside its
\* strings do not move the end of the span.
C28_NestedObjectReturnedWhole ==
  pc = "Parsed" =>
    \A o \in CallObjects :
      (HasKey(o, "name") /\ FirstBraceOpens(ResponseText, o))
      => tool_call = ToolCallOf(o)

\* C28 witness: a nested object whose inner string holds an opening brace
\* and an escaped quote, followed by trailing text with a stray closing
\* brace, was returned whole.
C28_Witness ==
  /\ pc = "Parsed"
  /\ \E o \in NestedNamedObjects :
       /\ ~BraceFree(o)
       /\ FirstBraceOpens(ResponseText, o)
       /\ Len(ResponseText) > Len(Serialize(o)) + 2
       /\ ResponseText[Len(ResponseText)] = RBrace
       /\ tool_call = o

\* ----------------------------------------------------------- the turn
ModelCalls == Count(events, "generate_with_tools") + Count(events, "generate")
DispatchReturnedNoError ==
  "execute_tool_call" \in Range(events) /\ ~Truthy(tool_execution.error)
TurnEnded == pc \in {"Direct", "ExtractionFailed", "Raised", "ToolError", "Done"}
IsErrorMessage(text) == IsFStr(text) /\ text[2] # <<>> /\ text[2][1] = CrossMark

\* C5: at the end of a turn the second model call has been made exactly
\* when the first response signalled a tool call, extraction returned a
\* call and dispatch returned without error; the Direct, ExtractionFailed
\* and ToolError outcomes made one model call and the final answer is the
\* model's direct text, respectively an error message.
C5_SecondCallIffDispatchSucceeded ==
  /\ TurnEnded =>
       (("generate" \in Range(events))
        <=> (response.needs_tool_call /\ Truthy(tool_call) /\ DispatchReturnedNoError))
  /\ pc = "Direct" =>
       /\ ModelCalls = 1 /\ events = <<"generate_with_tools">>
       /\ final_answer = response.content
  /\ pc = "ExtractionFailed" =>
       /\ ModelCalls = 1 /\ events = <<"generate_with_tools", "parse_tool_call">>
       /\ final_answer = ParseDiagnostic
  /\ pc = "ToolError" =>
       /\ ModelCalls = 1 /\ events[Len(events)] # "generate"
       /\ final_answer = tool_execution.formatted_result
       /\ IsErrorMessage(final_answer)

\* C5 witness: a dispatch that went as far as the integration layer came
\* back with an error and ended the turn.
C5_Witness ==
  /\ pc = "ToolError" /\ "call_tool" \in Range(events)
  /\ Truthy(tool_execution.error)

\* C6: when a turn ends in success its events are, in order, the first
\* model call, extraction, one dispatch and the second model call; the
\* second prompt holds the formatted tool result and the question, and the
\* final answer is what the second call returned.
C6_SuccessPathOrderAndPrompt ==
  pc = "Done" =>
    /\ Len(events) >= 4
    /\ events[1] = "generate_with_tools" /\ events[2] = "parse_tool_call"
    /\ events[3] = "execute_tool_call" /\ events[Len(events)] = "generate"
    /\ Count(events, "generate_with_tools") = 1 /\ Count(events, "parse_tool_call") = 1
    /\ Count(events, "execute_tool_call") = 1 /\ Count(events, "generate") = 1
    /\ Contains(follow_up_prompt, tool_execution.formatted_result)
    /\ Contains(follow_up_prompt, FStr(<<Val(question)>>))
    /\ final_answer = generated

\* C6 witness: a turn ended in success on a query whose accessor ran.
C6_Witness ==
  /\ pc = "Done" /\ "query_homicides_advanced" \in Range(events)
  /\ final_answer \in Answers

\* ------------------------------------------------------ the dispatcher
Dispatched == pc \in {"ToolError", "Summarizing", "Done"}
NotInCatalog(tool_name) == \A i \in 1..Len(ToolNames) : tool_name # Str(ToolNames[i])
SummaryFields == {"tool_name", "arguments", "raw_result", "formatted_result", "error"}
AccessorInvoked == \E i \in 1..Len(AvailableTools) : AvailableTools[i] \in Range(events)
\* The call did not succeed: the accessor was not reached, or its result
\* carries an error.
CallDidNotSucceed == ~AccessorInvoked \/ "error" \in DOMAIN tool_execution.raw_result

\* C7: execute_tool_call returns an execution record for every mapping,
\* and when the call did not succeed the record's error is not null and
\* its formatted result is an error message.
C7_DispatcherReturnsRecord ==
  Dispatched =>
    /\ DOMAIN tool_execution = SummaryFields
    /\ CallDidNotSucceed =>
         (tool_execution.error # None /\ IsErrorMessage(tool_execution.formatted_result))

\* C7 witness: a call whose arguments are not a mapping made the accessor
\* call raise inside the integration layer, and a record came back.
C7_Witness ==
  /\ Dispatched /\ homicide_data.loaded /\ ~IsDict(Get(tool_call, "arguments"))
  /\ events = <<"execute_tool_call", "call_tool">>
  /\ Truthy(tool_execution.error)

\* C8: for a name outside the catalog the formatted result is exactly the
\* cross mark, "Unknown tool: " and the name; the error is set; neither the
\* integration layer nor the accessor is called.
C8_UnknownToolExactMessage ==
  (Dispatched /\ NotInCatalog(Get(tool_call, "name"))) =>
    /\ tool_execution.formatted_result
         = FStr(<<CrossMark, Lit("Unknown tool: "), Val(Get(tool_call, "name"))>>)
    /\ Truthy(tool_execution.error)
    /\ events = <<"execute_tool_call">>

\* C8 witness: a call naming a tool that is a non-empty string outside the
\* catalog was dispatched.
C8_Witness ==
  /\ Dispatched /\ IsStr(Get(tool_call, "name")) /\ Truthy(Get(tool_call, "name"))
  /\ NotInCatalog(Get(tool_call, "name"))
  /\ tool_execution.tool_name = Get(tool_call, "name")

\* ---------------------------------------------------- unknown tool names
NamesTool(error, tool_name) == Contains(error, FStr(<<Val(tool_name)>>))
ListsValidNames(error) ==
  \A i \in 1..Len(AvailableTools) : Contains(error, FStr(<<Val(Str(AvailableTools[i]))>>))
UnknownCommand ==
  /\ pc = "CommandDone"
  /\ \A i \in 1..Len(AvailableTools) : direct.tool_name # Str(AvailableTools[i])
DirectError == IF "error" \in DOMAIN direct.result THEN direct.result.error ELSE FStr(<<>>)

\* C9 as stated: on each of the three paths the error for an unknown name
\* names the tool and lists the valid names.
C9_UnknownToolNamedAndListed ==
  /\ (Dispatched /\ NotInCatalog(Get(tool_call, "name"))) =>
       (NamesTool(tool_execution.error, Get(tool_call, "name"))
        /\ ListsValidNames(tool_execution.error))
  /\ UnknownCommand =>
       (NamesTool(DirectError, direct.tool_name) /\ ListsValidNames(DirectError))

\* C9 amended: the error for an unknown name names the tool wherever the
\* name test is reached: always in execute_tool_call, and in call_tool and
\* handle_tool_call when their instance holds a dataset (without one they
\* report that instead); call_tool alone also lists the valid names.
C9_UnknownToolNamed ==
  /\ (Dispatched /\ NotInCatalog(Get(tool_call, "name"))) =>
       /\ NamesTool(tool_execution.error, Get(tool_call, "name"))
       /\ ~ListsValidNames(tool_execution.error)
  /\ (UnknownCommand /\ direct.entry = "call_tool") =>
       IF homicide_data.loaded
         THEN NamesTool(DirectError, direct.tool_name) /\ ListsValidNames(DirectError)
         ELSE DirectError = FStr(<<Lit("MCP tools not initialized")>>)
  /\ (UnknownCommand /\ direct.entry = "handle_tool_call") =>
       IF global_data.loaded
         THEN NamesTool(DirectError, direct.tool_name) /\ ~ListsValidNames(DirectError)
         ELSE DirectError = FStr(<<Lit("Homicide data not loaded")>>)

\* C9 witness: the integration layer, holding a dataset, was asked for a
\* tool it does not have.
C9_Witness ==
  /\ UnknownCommand /\ direct.entry = "call_tool" /\ homicide_data.loaded
  /\ direct.invoked = ""

\* ------------------------------------------------------------ the dataset
\* C10: every instance that holds a dataset holds the rows that were
\* loaded, whatever was dispatched before; and dispatching the call of the
\* turn again gives an equal record (raw and formatted result).
C10_DatasetUnchangedAndRedispatchEqual ==
  /\ homicide_data.loaded => homicide_data.df = loaded_df
  /\ global_data.loaded => global_data.df = loaded_df
  /\ Dispatched => execute_tool_call(homicide_data, tool_call).summary = tool_execution

\* C10 witness: a query whose filters matched fewer rows than the dataset
\* holds has run against a loaded dataset.
C10_Witness ==
  /\ Dispatched /\ homicide_data.loaded
  /\ "query_homicides_advanced" \in Range(events)
  /\ "total_matches" \in DOMAIN tool_execution.raw_result
  /\ tool_execution.raw_result.total_matches < Len(loaded_df)

\* ------------------------------------------------------ accessor results
CallName == Get(tool_call, "name")
CallArguments == Get(tool_call, "arguments")
\* The argument the call carries under a key (none when it carries none).
Arg(key) == Get(CallArguments, key)
Raw == tool_execution.raw_result
QueryRan == Dispatched /\ CallName = QHA /\ "query_homicides_advanced" \in Range(events)
IucrRan == Dispatched /\ CallName = IUCR /\ "get_iucr_info" \in Range(events)
QueryReturned == QueryRan /\ "total_matches" \in DOMAIN Raw

\* C11: what an accessor operation returns is a complete result of its
\* shape (the advanced result's fourteen keys; the code result's five or
\* the overview's four) or a mapping whose only key is `error`; a failure
\* inside the operation comes back as such an error mapping.
C11_CompleteResultOrErrorOnly ==
  /\ QueryRan => DOMAIN Raw \in {AdvancedKeys, {"error"}}
  /\ IucrRan => DOMAIN Raw \in {IucrCodeKeys, IucrOverviewKeys, {"error"}}

\* C11 witness: a query whose body raised (a year bound or a pattern the
\* comparison rejects) came back from the accessor.
C11_Witness ==
  /\ QueryRan /\ DOMAIN Raw = {"error"}
  /\ Raw.error = FStr(<<Lit("Error in advanced query: "), Lit("<exception>")>>)

\* C12: with no dataset loaded, call_tool and handle_tool_call answer any
\* name and arguments with a mapping whose only key is `error` and invoke no
\* accessor operation; a turn that dispatches in this state ends in
\* ToolError with an error message as its answer, no accessor call and no
\* second model call, and for a catalog tool the answer is that error.
C12_NoDatasetShortCircuits ==
  /\ (Dispatched /\ ~homicide_data.loaded) =>
       /\ pc = "ToolError" /\ ~AccessorInvoked /\ "generate" \notin Range(events)
       /\ IsErrorMessage(final_answer)
       /\ ~NotInCatalog(CallName) =>
            /\ Raw = [error |-> FStr(<<Lit("MCP tools not initialized")>>)]
            /\ final_answer = Concat(FStr(<<CrossMark>>), Raw.error)
  /\ (pc = "CommandDone" /\ direct.entry = "call_tool" /\ ~homicide_data.loaded) =>
       (DOMAIN direct.result = {"error"} /\ direct.invoked = "")
  /\ (pc = "CommandDone" /\ direct.entry = "handle_tool_call" /\ ~global_data.loaded) =>
       (DOMAIN direct.result = {"error"} /\ direct.invoked = "")

\* C12 witness: a turn dispatched a catalog tool while the integration
\* layer held no dataset.
C12_Witness ==
  /\ pc = "ToolError" /\ ~homicide_data.loaded
  /\ events = <<"generate_with_tools", "parse_tool_call", "execute_tool_call", "call_tool">>

\* ------------------------------------------------------- advanced query
\* The rows the dispatched query works on after its filters.
MatchedRows == FilteredRows(loaded_df, AdvancedArgs(CallArguments))
IsSet(key) == ~IsNone(Arg(key))
\* The filter semantics the specification gives, on one record.
InYearRange(row) ==
  /\ IsSet("start_year") => (IsNum(row.Year) /\ row.Year[2] >= Arg("start_year")[2])
  /\ IsSet("end_year") => (IsNum(row.Year) /\ row.Year[2] <= Arg("end_year")[2])
EqualsNumber(cell, key) ==
  IsSet(key) => (IsNum(cell) /\ IsNum(Arg(key)) /\ cell[2] = Arg(key)[2])
EqualsFlag(flag, key) == IsSet(key) => (flag = Arg(key)[2])
HasSubstring(cell, key) ==
  IsSet(key) =>
    (IsStr(cell) /\ IsSubstr(Lower(Arg(key)[2][1]), Lower(cell[2][1])))
SatisfiesSetFilters(row) ==
  /\ InYearRange(row)
  /\ EqualsNumber(row.Ward, "ward")
  /\ EqualsNumber(row.District, "district")
  /\ EqualsNumber(row.CommunityArea, "community_area")
  /\ EqualsFlag(row.Arrest, "arrest_status")
  /\ EqualsFlag(row.Domestic, "domestic")
  /\ HasSubstring(row.LocationDescription, "location_type")
\* Year bounds are numbers, flags are booleans, the location type is a word.
WellTypedFilters ==
  /\ \A key \in {"start_year", "end_year"} : IsSet(key) => IsNum(Arg(key))
  /\ \A key \in {"arrest_status", "domestic"} : IsSet(key) => IsBool(Arg(key))
  /\ IsSet("location_type") => IsStr(Arg("location_type")) /\ Len(Arg("location_type")[2]) = 1

\* C13: total_matches of a dispatched advanced query is the number of
\* dataset records that satisfy every set filter (year range, ward,
\* district and community-area equality, arrest and domestic equality,
\* case-insensitive substring of the location description); unset filters
\* exclude nothing, a false flag is applied, a non-numeric ward, district
\* or community area never matches and raises no error, and
\* filters_applied lists exactly the set filters.
C13_TotalMatchesCountsRecordsUnderSetFilters ==
  (QueryRan /\ WellTypedFilters) =>
    /\ "total_matches" \in DOMAIN Raw
    /\ Raw.total_matches =
         Cardinality({i \in 1..Len(loaded_df) : SatisfiesSetFilters(loaded_df[i])})
    /\ {Raw.filters_applied[i][1] : i \in 1..Len(Raw.filters_applied)} =
         {key \in Range(FilterNames) : IsSet(key)}

\* The distinct non-null values of a column of the matches all appear in a
\* breakdown, each with its number of matches.
CountsAllMatches(breakdown, field) ==
  LET cells == Column(MatchedRows, field) IN
    \A i \in 1..Len(cells) :
      ~IsNone(cells[i]) =>
        \E j \in 1..Len(breakdown) : breakdown[j] = <<cells[i], CountOf(cells, cells[i])>>

\* C14: when the call uses no group_by, the ward, district and
\* community-area breakdowns of the result hold every distinct non-null
\* value of the field among the matches with its count, not only the top_n
\* most frequent.
C14_BreakdownsCoverAllMatches ==
  (QueryReturned /\ ~Truthy(Arg("group_by"))) =>
    /\ CountsAllMatches(Raw.ward_breakdown, "Ward")
    /\ CountsAllMatches(Raw.district_breakdown, "District")
    /\ CountsAllMatches(Raw.community_area_breakdown, "CommunityArea")

GroupColumn(type) ==
  CASE type = "ward" -> "Ward"
    [] type = "district" -> "District"
    [] type = "community_area" -> "CommunityArea"
    [] type = "location" -> "Block"
FirstSeen(cells, key) ==
  CHOOSE i \in 1..Len(cells) : cells[i] = key /\ \A j \in 1..(i - 1) : cells[j] # key
GroupByNamesAGrouping ==
  /\ IsStr(Arg("group_by")) /\ Len(Arg("group_by")[2]) = 1
  /\ Arg("group_by")[2][1] \in {"ward", "district", "community_area", "location"}
TopNBound == IF IsSet("top_n") THEN Arg("top_n")[2] ELSE 10

Distance(x, y) == IF x >= y THEN x - y ELSE y - x
\* tenths is count / total as a percentage rounded to one decimal.
IsOneDecimalPercentage(tenths, count, total) ==
  /\ tenths \in 0..1000
  /\ IF total = 0 THEN tenths = 0
     ELSE 2 * Distance(tenths * total, 1000 * count) <= total

\* C16: in every advanced-query result arrest_count and domestic_count lie
\* between 0 and total_matches and count the matches with the flag;
\* arrest_rate and domestic_rate are the percentage of the count over
\* total_matches to one decimal (15 of 40 gives 37.5), between 0 and 100,
\* and both are zero when nothing matches.
C16_CountsBoundedRatesOneDecimal ==
  /\ RateTenths(15, 40) = 375
  /\ QueryReturned =>
       /\ Raw.arrest_count \in 0..Raw.total_matches
       /\ Raw.domestic_count \in 0..Raw.total_matches
       /\ Raw.arrest_count =
            Cardinality({i \in 1..Len(MatchedRows) : MatchedRows[i].Arrest})
       /\ Raw.domestic_count =
            Cardinality({i \in 1..Len(MatchedRows) : MatchedRows[i].Domestic})
       /\ IsOneDecimalPercentage(Raw.arrest_rate, Raw.arrest_count, Raw.total_matches)
       /\ IsOneDecimalPercentage(Raw.domestic_rate, Raw.domestic_count, Raw.total_matches)

\* C16 witness: two arrests among three matches, a rate that has to be
\* rounded (66.7%).
C16_Witness ==
  /\ QueryReturned /\ Raw.total_matches = 3
  /\ Raw.arrest_count = 2 /\ Raw.arrest_rate = 667

\* C16 witness: a query that matched nothing returned zero rates.
C16_WitnessNoMatch ==
  /\ QueryReturned /\ Raw.total_matches = 0
  /\ Raw.arrest_rate = 0 /\ Raw.domestic_rate = 0

Smaller(x, y) == IF x <= y THEN x ELSE y
\* The call gives no limit, or a count of records.
LimitIsCount == IsSet("limit") => (IsNum(Arg("limit")) /\ Arg("limit")[2] >= 0)
LimitBound == IF IsSet("limit") THEN Arg("limit")[2] ELSE 100

\* C17: sample_records of a dispatched advanced query holds exactly
\* min(limit, total_matches) records, the first matches in dataset order,
\* and sample_records_count is its length; without a limit in the call the
\* bound is 100.
C17_SampleIsFirstMatchesUpToLimit ==
  (QueryReturned /\ LimitIsCount) =>
    /\ Len(Raw.sample_records) = Smaller(LimitBound, Raw.total_matches)
    /\ Raw.sample_records_count = Len(Raw.sample_records)
    /\ \A i \in 1..Len(Raw.sample_records) :
         Raw.sample_records[i].case_number = MatchedRows[i].case_number
    /\ \A i \in 1..Len(MatchedRows) :
         MatchedRows[i] = loaded_df[FirstSeen(Column(loaded_df, "case_number"),
                                              MatchedRows[i].case_number)]

\* C17 witness: a call without a limit matched 101 records and its sample
\* holds the first 100.
C17_Witness ==
  /\ QueryReturned /\ ~IsSet("limit")
  /\ Raw.total_matches = 101 /\ Raw.sample_records_count = 100
  /\ Raw.sample_records[100].case_number = loaded_df[100].case_number

\* ---------------------------------------------------------- get_iucr_info
CodeRows == {i \in 1..Len(loaded_df) : loaded_df[i].IUCR = Arg("iucr_code")}
CodeCount(code) == CountOf(Column(loaded_df, "IUCR"), code)
NotFound(code) == [error |-> FStr(<<Lit("IUCR code '"), Val(code), Lit("' not found")>>)]

Formatted == pc = "Formatted" /\ direct.entry = "format_tool_result"
ResultKeys == DOMAIN direct.result
\* The first piece of the text the formatter returned.
Heading == direct.formatted[2][1]

\* C19: for every result mapping that holds an `error` key the formatter
\* returns the one-line error message (the cross mark, `Error: ` and the
\* error text) and nothing else, whatever other keys the mapping holds.
C19_ErrorKeyShortCircuits ==
  (Formatted /\ "error" \in ResultKeys) =>
    /\ direct.formatted = Concat(FStr(<<CrossMark, Lit("Error: ")>>), direct.result.error)
    /\ Len(direct.formatted[2]) = 2 + Len(direct.result.error[2])

\* C19 witness: a mapping holding `error` together with the keys of the
\* advanced shape and of the code shape was formatted.
C19_Witness ==
  /\ Formatted
  /\ {"error", "total_matches", "filters_applied", "iucr_code"} \subseteq ResultKeys
  /\ Heading = CrossMark

HasAdvancedKeys == {"total_matches", "filters_applied"} \subseteq ResultKeys
HasCodeKey == "iucr_code" \in ResultKeys
HasOverviewKeys == {"explanation", "unique_codes_count"} \subseteq ResultKeys

\* C20 as stated: for every result mapping without `error` the report is
\* chosen in the priority order advanced-query shape, code shape, overview
\* shape, fallback dump: total_matches with filters_applied always gives the
\* advanced report, iucr_code without them always the code report, and a
\* mapping of no shape the dump.
C20_FourShapePriority ==
  (Formatted /\ "error" \notin ResultKeys) =>
    Heading = (IF HasAdvancedKeys THEN Lit("Advanced Homicide Query Results")
               ELSE IF HasCodeKey THEN Lit("IUCR Code: ")
               ELSE IF HasOverviewKeys THEN Lit("IUCR System Overview")
               ELSE Lit("Result:"))

\* The shape the key tests select, in their order, and the keys its report
\* needs.
SelectedShape ==
  IF HasAdvancedKeys THEN "advanced"
  ELSE IF {"year", "records"} \subseteq ResultKeys THEN "year"
  ELSE IF "total_homicides" \in ResultKeys THEN "statistics"
  ELSE IF {"query", "records"} \subseteq ResultKeys THEN "location"
  ELSE IF HasCodeKey THEN "code"
  ELSE IF HasOverviewKeys THEN "overview"
  ELSE "none"
HasFocusedBreakdown ==
  /\ "primary_breakdown" \in ResultKeys
  /\ direct.result.primary_breakdown.present
  /\ direct.result.primary_breakdown.data # <<>>
NeededKeys ==
  CASE SelectedShape = "advanced" ->
         {"filters_applied", "total_matches", "arrest_count", "arrest_rate",
          "domestic_count", "domestic_rate", "sample_records"}
         \cup (IF HasFocusedBreakdown THEN {} ELSE {"year_breakdown"})
    [] SelectedShape = "year" -> {"year", "total_records", "returned_records", "records"}
    [] SelectedShape = "statistics" ->
         {"total_homicides", "year_range", "arrests_made", "arrest_rate",
          "domestic_cases", "domestic_rate"}
    [] SelectedShape = "location" -> {"query", "total_matches", "returned_records", "records"}
    [] SelectedShape = "code" ->
         {"iucr_code", "primary_type", "description", "total_cases", "explanation"}
    [] OTHER -> {}
HeadingOf(shape) ==
  CASE shape = "advanced" -> Lit("Advanced Homicide Query Results")
    [] shape = "year" -> Lit("Homicides in ")
    [] shape = "statistics" -> Lit("Homicide Statistics")
    [] shape = "location" -> Lit("Location Search: ")
    [] shape = "code" -> Lit("IUCR Code: ")
    [] shape = "overview" -> Lit("IUCR System Overview")
    [] OTHER -> Lit("Result:")

\* C20 amended: for every result mapping without `error` the report is
\* chosen by key presence in the order advanced query, records of a year,
\* statistics, location search, code, overview, fallback dump, and the
\* first matching shape wins; when the mapping holds the keys that report
\* reads (for the advanced report year_breakdown only without a focused
\* breakdown) the report is rendered, and a mapping of no shape is the dump
\* of the mapping; when a key the report reads is missing the text is the
\* raw dump with a format-error note.
C20_SevenShapePriority ==
  (Formatted /\ "error" \notin ResultKeys) =>
    /\ NeededKeys \subseteq ResultKeys => Heading = HeadingOf(SelectedShape)
    /\ ~(NeededKeys \subseteq ResultKeys) => direct.formatted = FormatError(direct.result)
    /\ SelectedShape = "none" => direct.formatted = Dump(direct.result)

\* C20 witness: a mapping holding both the code result's keys and the
\* overview's, and none of the earlier shapes', was rendered as the code
\* report.
C20_Witness ==
  /\ Formatted
  /\ ResultKeys = IucrCodeKeys \cup IucrOverviewKeys
  /\ Heading = Lit("IUCR Code: ")

\* ---------------------------------------------------- the advanced report
Parts == direct.formatted[2]
IsLit(part, text) == part[1] = "lit" /\ part[2] = text
IsItem(part) == part[1] = "item"
HasLit(text) == \E i \in 1..Len(Parts) : IsLit(Parts[i], text)
AdvancedRendered == Formatted /\ IsLit(Heading, "Advanced Homicide Query Results")
DetailTitles ==
  {"Year Breakdown:", "Ward Breakdown", "District Breakdown", "Community Area Breakdown"}
GreatestCount(pairs) ==
  CHOOSE c \in {pairs[i][2] : i \in 1..Len(pairs)} : \A i \in 1..Len(pairs) : pairs[i][2] <= c
\* The first entry of a count-mapping that has its greatest count.
FirstGreatest(pairs) ==
  pairs[CHOOSE i \in 1..Len(pairs) :
          /\ pairs[i][2] = GreatestCount(pairs)
          /\ \A j \in 1..(i - 1) : pairs[j][2] < GreatestCount(pairs)]
\* The item lines that follow the title at position p list every entry of
\* the mapping once, counts never increasing.
ListsByCountDescending(p, kind, pairs) ==
  /\ p + Len(pairs) <= Len(Parts)
  /\ \A i \in 1..Len(pairs) :
       /\ IsItem(Parts[p + i]) /\ Parts[p + i][2] = kind
       /\ \E j \in 1..Len(pairs) : pairs[j] = <<Parts[p + i][3], Parts[p + i][4]>>
       /\ i > 1 => Parts[p + i - 1][4] >= Parts[p + i][4]
  /\ \A j \in 1..Len(pairs) :
       \E i \in 1..Len(pairs) : pairs[j] = <<Parts[p + i][3], Parts[p + i][4]>>

\* C21: when the result holds a focused breakdown with data, the advanced
\* report lists its entries by descending count, names the first entry of
\* greatest count in the line `<entry> had the most with <count>` (9 for
\* wards 3, 7, 12 with 5, 9, 9 matches), and renders no year, ward,
\* district or community-area section; without a focused breakdown the
\* report holds no `had the most` line.
C21_FocusedReportNamesTopEntry ==
  AdvancedRendered =>
    IF HasFocusedBreakdown
      THEN LET focused == direct.result.primary_breakdown
               n == Len(focused.data)
               top == FirstGreatest(focused.data)
           IN /\ \E p \in 1..Len(Parts) :
                   /\ IsLit(Parts[p], "Breakdown (Ranked by Count):")
                   /\ ListsByCountDescending(p + 1, focused.type, focused.data)
                   /\ IsLit(Parts[p + n + 2], "Answer: ")
                   /\ Parts[p + n + 3] = Item(focused.type, top[1], top[2])
                   /\ IsLit(Parts[p + n + 4], " had the most with ")
                   /\ Parts[p + n + 5] = Val(Num(GreatestCount(focused.data)))
              /\ \A title \in DetailTitles : ~HasLit(title)
      ELSE ~HasLit(" had the most with ")

\* C21 witness: the report of the scenario's focused ward breakdown names
\* ward 7 with 9.
C21_Witness ==
  /\ AdvancedRendered /\ HasFocusedBreakdown
  /\ direct.result.primary_breakdown.data = ScenarioCounts
  /\ \E p \in 1..Len(Parts) :
       /\ IsLit(Parts[p], " had the most with ")
       /\ Parts[p - 1] = Item("ward", Num(7), 9)
       /\ Parts[p + 1] = Val(Num(9))

\* A section of the report lists a count-mapping of the result by
\* descending count under its title (no section for an empty mapping).
SectionByCountDescending(title, kind, key) ==
  (key \in ResultKeys /\ direct.result[key] # <<>>) =>
    \E p \in 1..Len(Parts) :
      /\ IsLit(Parts[p], title)
      /\ ListsByCountDescending(p, kind, direct.result[key])

\* C22: when the result holds no focused breakdown, the advanced report
\* renders the year, ward, district and community-area breakdowns, each by
\* descending count.
C22_DetailSectionsByCountDescending ==
  (AdvancedRendered /\ ~HasFocusedBreakdown) =>
    /\ SectionByCountDescending("Year Breakdown:", "year", "year_breakdown")
    /\ SectionByCountDescending("Ward Breakdown", "ward", "ward_breakdown")
    /\ SectionByCountDescending("District Breakdown", "district", "district_breakdown")
    /\ SectionByCountDescending("Community Area Breakdown", "community_area",
                                "community_area_breakdown")

\* The three sections the code sorts by count are by descending count.
WardDistrictAreaByCountDescending ==
  (AdvancedRendered /\ ~HasFocusedBreakdown) =>
    /\ SectionByCountDescending("Ward Breakdown", "ward", "ward_breakdown")
    /\ SectionByCountDescending("District Breakdown", "district", "district_breakdown")
    /\ SectionByCountDescending("Community Area Breakdown", "community_area",
                                "community_area_breakdown")

IsSample(part) == part[1] = "sample"
SampleParts == SelectSeq(Parts, IsSample)
\* The report holds at most three sample blocks, for the first records.
AtMostThreeSamples ==
  LET records == direct.result.sample_records IN
    /\ Len(SampleParts) = Smaller(3, Len(records))
    /\ \A i \in 1..Len(SampleParts) : SampleParts[i] = Sample(i, records[i])
\* Every top location of the result is a line of the Top Locations section.
AllTopLocationsListed ==
  LET top == direct.result.top_locations IN
    top # <<>> =>
      \E p \in 1..Len(Parts) :
        /\ IsLit(Parts[p], "Top Locations:")
        /\ \A i \in 1..Len(top) :
             /\ p + i <= Len(Parts) /\ IsItem(Parts[p + i])
             /\ Parts[p + i] = Item("location", top[i][1], top[i][2])

\* C23: the advanced report renders every top location the result holds
\* (up to five) and then at most three sample records, however many the
\* result carries.
C23_AllTopLocationsThenThreeSamples ==
  (AdvancedRendered /\ "top_locations" \in ResultKeys) =>
    (AllTopLocationsListed /\ AtMostThreeSamples)

\* Samples are cut to three on every advanced report.
SamplesCutToThree == AdvancedRendered => AtMostThreeSamples

\* ------------------------------------------- re-reading the sample blocks
\* The first position of a lexeme in a text (0 when it has none).
IndexOf(text, lexeme) ==
  IF \E i \in 1..Len(text) : text[i] = lexeme
    THEN CHOOSE i \in 1..Len(text) : text[i] = lexeme /\ \A j \in 1..(i - 1) : text[j] # lexeme
    ELSE 0
RECURSIVE JoinLexemes(_)
JoinLexemes(text) == IF text = <<>> THEN "" ELSE Head(text) \o JoinLexemes(Tail(text))
\* A reader of the report: each `. **Case <number>** (` opens a block whose
\* case number is the text up to `** (`, and whose arrest flag is the word
\* after the block's `Arrest: `.
RECURSIVE ParseSampleBlocks(_)
ParseSampleBlocks(text) ==
  LET open == IndexOf(text, ". **Case ") IN
    IF open = 0 THEN <<>>
    ELSE LET rest == SubSeq(text, open + 1, Len(text))
             close == IndexOf(rest, "** (")
             flag == IndexOf(rest, "   Arrest: ")
         IN IF close = 0 \/ flag = 0 \/ flag = Len(rest) THEN <<>>
            ELSE <<[case_number |-> JoinLexemes(SubSeq(rest, 1, close - 1)),
                    arrest |-> rest[flag + 1] = "Yes"]>>
                 \o ParseSampleBlocks(SubSeq(rest, flag + 2, Len(rest)))

\* C24: reading the sample record blocks back from the text of an advanced
\* report gives, block by block and in order, the case number and the
\* arrest flag (Yes for true, No for false) of the corresponding record of
\* the result.
C24_SampleBlocksReadBack ==
  AdvancedRendered =>
    LET records == direct.result.sample_records
        read == ParseSampleBlocks(ReportText(Parts))
    IN /\ Len(read) = Smaller(3, Len(records))
       /\ \A i \in 1..Len(read) :
            /\ read[i].case_number = records[i].case_number
            /\ read[i].arrest = records[i].arrest

\* C24 witness: a report of a result with four records, the second not
\* arrested, was read back.
C24_Witness ==
  /\ AdvancedRendered
  /\ Len(direct.result.sample_records) = 4
  /\ ~direct.result.sample_records[2].arrest
  /\ Len(ParseSampleBlocks(ReportText(Parts))) = 3
  /\ ParseSampleBlocks(ReportText(Parts))[2] = [case_number |-> "HC2", arrest |-> FALSE]

\* ------------------------------------------------------- backend failure
\* The backend failed on the turn's first call: the response content is
\* the gateway's error text and not a model's.
FirstCallFailed == events # <<>> /\ IsFStr(response.content)
SecondCallFailed == pc = "Done" /\ IsFStr(generated)

\* C25: a failure of the model backend is returned as error text and never
\* raised: on the first call the response carries the error text with
\* needs_tool_call false, the turn ends with that text as its answer and
\* neither extraction nor dispatch happens; on the second call the final
\* answer is the error text.
C25_BackendFailureIsErrorText ==
  /\ FirstCallFailed =>
       /\ pc = "Direct" /\ ~response.needs_tool_call
       /\ IsErrorMessage(response.content) /\ final_answer = response.content
       /\ events = <<"generate_with_tools">>
       /\ tool_call = None
  /\ SecondCallFailed =>
       (IsErrorMessage(generated) /\ final_answer = generated)
  /\ pc = "Raised" => (IsStr(response.content) /\ "generate" \notin Range(events))

\* C25 witness: the backend failed on the second call of a turn whose
\* dispatch succeeded.
C25_Witness ==
  /\ SecondCallFailed /\ DispatchReturnedNoError
  /\ final_answer = BackendError

\* C25 witness: the backend failed on the first call.
C25_WitnessFirstCall == FirstCallFailed /\ final_answer = BackendError

\* ------------------------------------------------------- the tool catalog
RejectedAsUnknown ==
  /\ "execute_tool_call" \in Range(events) /\ "call_tool" \notin Range(events)
  /\ tool_execution.error = FStr(<<Lit("Unknown tool: "), Val(CallName)>>)
NamedInPrompt ==
  /\ IsStr(CallName) /\ Len(CallName[2]) = 1
  /\ CallName[2][1] \in PromptToolList \cup PromptExamples

\* C26: the catalog is one set of two tools: the names the dispatcher
\* accepts and the names the integration layer routes are the same two
\* names, and every name the system prompt shows the model (tool list and
\* worked examples) is among them, so a dispatched call that uses a name
\* from the prompt is never rejected as an unknown tool.
C26_PromptNamesAreCatalogNames ==
  /\ Range(ToolNames) = Range(AvailableTools)
  /\ Cardinality(Range(ToolNames)) = 2 /\ Len(ToolNames) = 2
  /\ ("execute_tool_call" \in Range(events) /\ NamedInPrompt) => ~RejectedAsUnknown

\* The dispatcher and the integration layer accept the same two names, and
\* a call naming one of them is not rejected as unknown.
CatalogNamesAccepted ==
  /\ Range(ToolNames) = Range(AvailableTools)
  /\ Cardinality(Range(ToolNames)) = 2 /\ Len(ToolNames) = 2
  /\ ("execute_tool_call" \in Range(events) /\ IsStr(CallName) /\ Len(CallName[2]) = 1
        /\ CallName[2][1] \in PromptToolList) => ~RejectedAsUnknown

\* ------------------------------------------------------ the /mcp command
ManualQuery ==
  /\ pc = "CommandDone" /\ direct.entry = "call_tool"
  /\ direct.tool_name = QHA /\ homicide_data.loaded
RowsOfYear(df, year) == {i \in 1..Len(df) : IsNum(df[i].Year) /\ df[i].Year[2] = year}
RowsAtLocation(df, word) ==
  {i \in 1..Len(df) :
     /\ IsStr(df[i].LocationDescription)
     /\ IsSubstr(Lower(word), Lower(df[i].LocationDescription[2][1]))}

\* C27: `/mcp query_homicides_advanced <digits>` runs the query restricted
\* to that year and `/mcp query_homicides_advanced <text>` runs it
\* restricted to that location; the typed argument is applied as a filter.
C27_ManualArgumentIsApplied ==
  (ManualQuery /\ direct.typed # "") =>
    /\ "total_matches" \in DOMAIN direct.result
    /\ direct.result.filters_applied # <<>>
    /\ direct.result.total_matches =
         Cardinality(IF IsDigit(direct.typed)
                       THEN RowsOfYear(homicide_data.df, IntValue(direct.typed))
                       ELSE RowsAtLocation(homicide_data.df, direct.typed))
\* ------------------------------------------------------------ the trace
\* The trace agrees with the path taken.
TraceConsistent ==
  /\ TraceFinalAnswer # None
  /\ TraceToolCall # None =>
       (response.needs_tool_call /\ ValidToolCall(tool_call) /\ TraceToolCall = tool_call)
  /\ TraceHasExecution => TraceToolCall # None
  /\ ReturnedText = TraceFinalAnswer

\* C29: at the end of every turn the trace has a final answer, a tool call
\* only if the model signalled one and extraction succeeded, a tool
\* execution only if it has a tool call, and the text the turn returns
\* without a trace is the trace's final answer.  (Violated: the turn that
\* raises at line 209 ends with no final answer and returns nothing.)
C29_TraceConsistentAtTurnEnd == TurnEnded => TraceConsistent

\* Every turn that returns has a consistent trace.
TraceConsistentWhenReturned == (TurnEnded /\ pc # "Raised") => TraceConsistent
TraceReachesEveryEnd ==
  /\ pc = "Done" /\ TraceHasExecution /\ TraceToolCall # None /\ ReturnedText = generated
\* --------------------------------------------------- the data fetcher
FetchEnded == fetcher.pc \in {"Returned", "Raised"}
\* The loop of the running call has been left.
LoopLeft == fetcher.pc \in {"Combining", "Returned", "Raised"} /\ fetcher.stop # "cache"
FullFrame(frame) == Len(frame) = BatchSize
FramesFetched == Len(fetcher.all_dataframes)
\* Every row of every fetched frame.
FetchedRows ==
  UNION {{fetcher.all_dataframes[f][i] : i \in 1..Len(fetcher.all_dataframes[f])} :
           f \in 1..FramesFetched}
\* rows holds each fetched row once.
HoldsFetchedRowsOnce(rows) ==
  /\ {rows[i] : i \in 1..Len(rows)} = FetchedRows
  /\ Len(rows) = Cardinality(FetchedRows)

\* The loop goes on only after full frames, at most BatchLimit of them, and
\* is left on an empty frame, a short frame, a fetch error or one frame
\* past the limit.
LoopStopsForAReason ==
  /\ fetcher.batch_count = FramesFetched
  /\ fetcher.batch_count <= BatchLimit + 1
  /\ fetcher.pc = "Paging" =>
       /\ fetcher.batch_count <= BatchLimit
       /\ \A f \in 1..FramesFetched : FullFrame(fetcher.all_dataframes[f])
  /\ LoopLeft =>
       /\ fetcher.stop \in {"empty", "short", "error", "limit"}
       /\ fetcher.stop = "short" => ~FullFrame(fetcher.all_dataframes[FramesFetched])
       /\ fetcher.stop = "limit" => fetcher.batch_count = BatchLimit + 1

\* A fetch error after a fetched frame is followed by the return of the
\* combined frames, which are then the cache; a fetch error before any
\* frame raises.
ErrorKeepsPartialData ==
  (LoopLeft /\ fetcher.stop = "error") =>
    IF FramesFetched > 0
      THEN /\ fetcher.pc \in {"Combining", "Returned"}
           /\ fetcher.pc = "Returned" =>
                /\ HoldsFetchedRowsOnce(fetcher.returned)
                /\ fetcher.cache.exists /\ fetcher.cache.rows = fetcher.returned
      ELSE fetcher.pc = "Raised"

\* The cache changes only in the step that returns fetched data, and then
\* holds the time of that step, so that it is valid.
CacheWrittenFreshOnReturn ==
  fetcher'.cache # fetcher.cache =>
    /\ fetcher.pc = "Combining" /\ fetcher'.pc = "Returned"
    /\ fetcher'.cache.fetched_at = fetcher'.now
    /\ is_cache_valid(fetcher'.cache, fetcher'.now)

C30_WitnessFirstBatchFails ==
  /\ fetcher.pc = "Raised" /\ fetcher.stop = "error" /\ FramesFetched = 0
  /\ fetcher.cache.exists

\* The loop was stopped by the batch limit.
C30_WitnessBatchLimit ==
  fetcher.pc = "Returned" /\ fetcher.stop = "limit" /\ FramesFetched = BatchLimit + 1
====
